---- MODULE Spec2Model ----
(***************************************************************************)
(* The webhook bridge between the form service and the meeting API:        *)
(* handle_form_submission (src/src/handlers/api.rs), the CSV ledger        *)
(* DatabaseService (src/src/services/database.rs) and the slot parser and  *)
(* merge planner (src/src/services/time_slots.rs).                         *)
(*                                                                         *)
(* Instants are minutes on one time line.  A scheduled_label               *)
(* "YYYY-MM-DD HH:MM-HH:MM" is the record [date, from, to] with from and   *)
(* to the two fragments in minutes of the day: two labels are the same     *)
(* string exactly when the records are equal.  The status strings of the   *)
(* form are written in ASCII: "ReservedZh" is the form's reserved word     *)
(* (U+5DF2 U+9884 U+7EA6), "CancelledZh" the form's cancelled word         *)
(* (U+5DF2 U+53D6 U+6D88); "Reserved" and "Cancelled" are the English      *)
(* words the ledger also recognises.                                       *)
(***************************************************************************)
EXTENDS Integers, Sequences, FiniteSets, TLC

VARIABLES
    req,          \* per in-flight task: position and locals of the handler
    ledger,       \* the rows of the CSV file, in file order
    file_mutex,   \* holder of DatabaseService.file_mutex, 0 when free
    now,          \* the wall clock (Utc::now), in minutes
    config        \* AppState.skip_meeting_creation / skip_room_booking

vars == <<req, ledger, file_mutex, now, config>>

----------------------------------------------------------------------------
(* Bounds of the model *)

NumReqs == 2          \* webhook requests in flight
MaxTicks == 1         \* clock advances
MaxRows == 2          \* ledger rows a direct driver of the ledger may create
MaxServed == 3        \* requests one connection sends one after the other
MaxSlots == 3         \* slots in a list handed to the planner on its own

(* Program constants *)

MinutesPerDay == 1440       \* 24 * 60
PastAdjustMins == 2         \* now + chrono::Duration::minutes(2)
DefaultDurationMins == 60   \* chrono::Duration::hours(1)

(* The instants the model's clock takes *)
NowStart == 500
TickMins == 45

Reqs == 1..NumReqs

----------------------------------------------------------------------------
(* Data *)

Tokens == {"tok1", "tok2"}
FormTokens == {"tok1"}

TheDate == "2035-04-01"

Label(f, t) == [date |-> TheDate, from |-> f, to |-> t]

\* FormField1Item: item_name, scheduled_label, scheduled_at.  scheduled_at
\* is the instant the RFC-3339 string denotes, or -1 for a string that
\* DateTime::parse_from_rfc3339 rejects.
BadTime == -1

\* a label without a time range after the date, as "2035-04-01"
NoRange == -1

RawSlot(room, f, t, at) ==
    [item_name |-> room, scheduled_label |-> Label(f, t), scheduled_at |-> at]

A0910 == RawSlot("RoomA", 540, 600, 540)
A1011 == RawSlot("RoomA", 600, 660, 600)
B0910 == RawSlot("RoomB", 540, 600, 540)
APast == RawSlot("RoomA", 420, 480, 420)
ABad  == RawSlot("RoomA", 540, 600, BadTime)

SlotLists ==
    { <<A0910>>, <<A0910, A1011>>, <<A0910, B0910>>, <<A0910, A1011, B0910>>,
      <<A0910, APast>>, <<ABad, A0910>> }

ReserveStatuses == {"ReservedZh"}
CancelStatuses == {"CancelledZh"}

FormNames == {"XA"}

\* the token the webhook is configured with, and the auth query parameter
\* of a request: the token itself, another text, or "" when it is absent
webhook_auth_token == "test_auth_token_123"
AuthValues == {webhook_auth_token, "wrong_token", ""}

\* FormSubmission: form_name, entry.token, entry.field_1,
\* entry.reservation_status_fsf_field; auth is the query parameter the
\* request came with
\* extra_fields holds no entry under user_field_name
NoUserField == ""

Submission(form_name, token, field_1, status, auth) ==
    [form_name |-> form_name, token |-> token, field_1 |-> field_1,
     status |-> status, auth |-> auth, user_field |-> NoUserField]

\* requests out of the ordinary: a status that is neither word, the
\* canonical cancelled value on a form that still lists its slot, an empty
\* slot list, an auth parameter that does not match or is missing
OddSubmissions ==
    { Submission("XA", "tok1", <<A0910>>, "UNKNOWN_STATUS", webhook_auth_token),
      Submission("XA", "tok1", <<A0910>>, "Cancelled", webhook_auth_token),
      Submission("XA", "tok1", <<>>, "ReservedZh", webhook_auth_token),
      Submission("XA", "tok1", <<A0910>>, "ReservedZh", "wrong_token"),
      Submission("XA", "tok1", <<A0910>>, "ReservedZh", ""),
      [Submission("XA", "tok1", <<A0910>>, "ReservedZh", webhook_auth_token)
           EXCEPT !.user_field = "Alice"] }

Submissions ==
    [form_name : FormNames, token : FormTokens, field_1 : SlotLists,
     status : ReserveStatuses, auth : {webhook_auth_token},
     user_field : {NoUserField}]
    \cup
    [form_name : FormNames, token : FormTokens, field_1 : {<<>>},
     status : CancelStatuses, auth : {webhook_auth_token},
     user_field : {NoUserField}]
    \cup OddSubmissions

NoSub == Submission("", "", <<>>, "", "")

\* meeting ids: pfx is the literal text, a and b the numbers formatted in
MeetingId(pfx, a, b) == [pfx |-> pfx, a |-> a, b |-> b]
NoId == MeetingId("", 0, 0)                     \* Option::None
UpstreamId(p, i) == MeetingId("m", p, i)        \* an id the upstream hands out

----------------------------------------------------------------------------
(* Slot Parser *)

\* time_slots.rs parse_time_slot: the duration the label gives
\* variant: the end of a label is taken to lie on the day of its start
duration_mins_same_day(label) ==
    IF label.from = NoRange THEN DefaultDurationMins
    ELSE label.to - label.from

duration_mins(label) ==
    IF label.from = NoRange THEN DefaultDurationMins
    ELSE IF label.to >= label.from
         THEN label.to - label.from
         ELSE MinutesPerDay + label.to - label.from

\* Result<TimeSlot, String>
ParseErr == [ok |-> FALSE]
ParseOk(slot) == [ok |-> TRUE, slot |-> slot]

TimeSlot(item_name, scheduled_label, start_time, end_time) ==
    [item_name |-> item_name, scheduled_label |-> scheduled_label,
     start_time |-> start_time, end_time |-> end_time]

\* variant: a slot entirely in the past is moved to now + 2 minutes like one
\* that has only started
parse_time_slot_adjusting(reservation, t) ==
    IF reservation.scheduled_at = BadTime THEN ParseErr
    ELSE LET parsed_start_time == reservation.scheduled_at
             original_end_time ==
                 parsed_start_time + duration_mins(reservation.scheduled_label)
         IN  ParseOk(TimeSlot(reservation.item_name, reservation.scheduled_label,
                              IF parsed_start_time < t
                              THEN t + PastAdjustMins ELSE parsed_start_time,
                              original_end_time))

\* variant: the end of a started slot is moved along with its start
parse_time_slot_late_end(reservation, t) ==
    IF reservation.scheduled_at = BadTime THEN ParseErr
    ELSE LET parsed_start_time == reservation.scheduled_at
             duration == duration_mins(reservation.scheduled_label)
             original_end_time == parsed_start_time + duration
             slot(s, e) ==
                 ParseOk(TimeSlot(reservation.item_name,
                                  reservation.scheduled_label, s, e))
         IN  IF parsed_start_time < t /\ original_end_time < t THEN ParseErr
             ELSE IF parsed_start_time < t
                  THEN slot(t + PastAdjustMins, t + PastAdjustMins + duration)
                  ELSE slot(parsed_start_time, original_end_time)

\* time_slots.rs parse_time_slot, run when the clock shows t
parse_time_slot(reservation, t) ==
    IF reservation.scheduled_at = BadTime THEN ParseErr
    ELSE LET parsed_start_time == reservation.scheduled_at
             original_end_time ==
                 parsed_start_time + duration_mins(reservation.scheduled_label)
             slot(s, e) ==
                 ParseOk(TimeSlot(reservation.item_name,
                                  reservation.scheduled_label, s, e))
         IN  IF parsed_start_time < t /\ original_end_time < t THEN ParseErr
             ELSE IF parsed_start_time < t
                  THEN slot(t + PastAdjustMins, original_end_time)
                  ELSE slot(parsed_start_time, original_end_time)

----------------------------------------------------------------------------
(* Merge Planner *)

\* variant: a slot that starts before the run's last slot ends joins the run
RECURSIVE ContinuousGroups_overlapping(_, _)
ContinuousGroups_overlapping(current_group, rest) ==
    IF rest = <<>> THEN <<current_group>>
    ELSE IF current_group[Len(current_group)].end_time >= Head(rest).start_time
         THEN ContinuousGroups_overlapping(Append(current_group, Head(rest)), Tail(rest))
         ELSE <<current_group>> \o ContinuousGroups_overlapping(<<Head(rest)>>, Tail(rest))

\* slice::sort_by_key(|slot| slot.start_time): a stable sort
RECURSIVE InsertByStart(_, _)
InsertByStart(sorted, slot) ==
    IF sorted = <<>> THEN <<slot>>
    ELSE IF Head(sorted).start_time <= slot.start_time
         THEN <<Head(sorted)>> \o InsertByStart(Tail(sorted), slot)
         ELSE <<slot>> \o sorted

RECURSIVE SortByStart(_)
SortByStart(slots) ==
    IF slots = <<>> THEN <<>>
    ELSE InsertByStart(SortByStart(SubSeq(slots, 1, Len(slots) - 1)),
                       slots[Len(slots)])

\* the walk over one room's sorted slots: current_group grows while the
\* next slot starts exactly when its last slot ends
RECURSIVE ContinuousGroups(_, _)
ContinuousGroups(current_group, rest) ==
    IF rest = <<>> THEN <<current_group>>
    ELSE IF current_group[Len(current_group)].end_time = Head(rest).start_time
         THEN ContinuousGroups(Append(current_group, Head(rest)), Tail(rest))
         ELSE <<current_group>> \o ContinuousGroups(<<Head(rest)>>, Tail(rest))

RoomsOf(slots) == {slots[i].item_name : i \in 1..Len(slots)}

\* the orders in which iterating the HashMap can yield the rooms
RoomOrders(slots) ==
    LET rooms == RoomsOf(slots)
        n == Cardinality(rooms)
    IN  {o \in [1..n -> rooms] : \A i, j \in 1..n : i # j => o[i] # o[j]}

RECURSIVE GroupsInOrder(_, _)
GroupsInOrder(slots, order) ==
    IF order = <<>> THEN <<>>
    ELSE LET room_slots ==
                 SortByStart(SelectSeq(slots, LAMBDA s : s.item_name = Head(order)))
         IN  ContinuousGroups(<<room_slots[1]>>, Tail(room_slots))
             \o GroupsInOrder(slots, Tail(order))

find_mergeable_groups(slots, order) ==
    IF slots = <<>> THEN <<>> ELSE GroupsInOrder(slots, order)

----------------------------------------------------------------------------
(* Ledger: DatabaseService over the CSV file *)

ReservedValues == {"Reserved", "ReservedZh"}
CancelledValues == {"Cancelled", "CancelledZh"}

\* cancelled_at: <<>> is the empty string, <<t>> the RFC-3339
\* text of instant t
NoStamp == <<>>
Stamp(t) == <<t>>

\* database.rs find_all_meetings_by_token, the body under the lock
find_all_meetings_by_token(rows, entry_token) ==
    SelectSeq(rows, LAMBDA record : record.entry_token = entry_token)

\* variant: the duplicate check without the status
\* variant: a cancelled row of the same label counts as the same entry
is_duplicate_counting_cancelled(rows, call) ==
    LET found == find_all_meetings_by_token(rows, call.entry_token)
    IN  \E i \in 1..Len(found) :
            /\ found[i].status = call.status \/ found[i].status \in {"Cancelled", "CancelledZh"}
            /\ found[i].scheduled_label = call.scheduled_label

is_duplicate_any_status(rows, call) ==
    LET found == find_all_meetings_by_token(rows, call.entry_token)
    IN  \E i \in 1..Len(found) :
            found[i].scheduled_label = call.scheduled_label

\* variant: the duplicate check against the English status word only
is_duplicate_english(rows, call) ==
    LET found == find_all_meetings_by_token(rows, call.entry_token)
    IN  \E i \in 1..Len(found) :
            /\ found[i].status = "Reserved"
            /\ found[i].scheduled_label = call.scheduled_label

\* the duplicate check of store_meeting_with_time_slot / store_merged_meeting
is_duplicate(rows, call) ==
    LET found == find_all_meetings_by_token(rows, call.entry_token)
    IN  \E i \in 1..Len(found) :
            /\ found[i].status = call.status
            /\ found[i].scheduled_label = call.scheduled_label

\* the MeetingRecord both store functions build
MeetingRecord(call) ==
    [entry_token |-> call.entry_token,
     room_name |-> call.room_name,
     scheduled_at |-> call.scheduled_at,
     scheduled_label |-> call.scheduled_label,
     status |-> call.status,
     meeting_id |-> call.meeting_id,
     room_id |-> call.room_id,
     cancelled_at |-> NoStamp]

\* write_record: append to the file
write_record(rows, record) == Append(rows, record)

\* variant: the label of the first slot stands for the whole meeting
combined_label_first(time_slots) == SortByStart(time_slots)[1].scheduled_label

\* store_merged_meeting: "{date} {first_time}-{last_time}"
combined_label(time_slots) ==
    LET sorted_slots == SortByStart(time_slots)
        first_slot == sorted_slots[1]
        last_slot == sorted_slots[Len(sorted_slots)]
    IN  [date |-> first_slot.scheduled_label.date,
         from |-> first_slot.scheduled_label.from,
         to |-> last_slot.scheduled_label.to]

\* the arguments of a store call, with the label and start it will record
store_meeting_with_time_slot(form, meeting_id, room_name, room_id, time_slot) ==
    [entry_token |-> form.token, status |-> form.status,
     scheduled_label |-> time_slot.scheduled_label,
     scheduled_at |-> time_slot.start_time,
     meeting_id |-> meeting_id, room_name |-> room_name, room_id |-> room_id]

store_merged_meeting(form, meeting_id, room_name, room_id, time_slots) ==
    [entry_token |-> form.token, status |-> form.status,
     scheduled_label |-> combined_label(time_slots),
     scheduled_at |-> SortByStart(time_slots)[1].start_time,
     meeting_id |-> meeting_id, room_name |-> room_name, room_id |-> room_id]

NoCall ==
    [entry_token |-> "", status |-> "", scheduled_label |-> Label(0, 0),
     scheduled_at |-> 0, meeting_id |-> NoId, room_name |-> "", room_id |-> ""]

\* variant: the row test without the token
is_active_row_any_token(record, entry_token) ==
    record.status \in {"Reserved", "ReservedZh"}

\* cancel_meeting: the row test
is_active_row(record, entry_token) ==
    LET is_reserved == record.status \in {"Reserved", "ReservedZh"}
        is_cancelled == record.status \in {"Cancelled", "CancelledZh"}
    IN  record.entry_token = entry_token /\ is_reserved /\ ~is_cancelled

\* variant: the pairs of every row of the token, cancelled ones included
RECURSIVE cancelled_meetings_any_status(_, _)
cancelled_meetings_any_status(rows, entry_token) ==
    IF rows = <<>> THEN <<>>
    ELSE (IF Head(rows).entry_token = entry_token
          THEN << <<Head(rows).meeting_id, Head(rows).room_id>> >>
          ELSE <<>>)
         \o cancelled_meetings_any_status(Tail(rows), entry_token)

\* cancel_meeting: the (meeting_id, room_id) pairs pushed, in file order
RECURSIVE cancelled_meetings(_, _)
cancelled_meetings(rows, entry_token) ==
    IF rows = <<>> THEN <<>>
    ELSE (IF is_active_row(Head(rows), entry_token)
          THEN << <<Head(rows).meeting_id, Head(rows).room_id>> >>
          ELSE <<>>)
         \o cancelled_meetings(Tail(rows), entry_token)

\* variant: the rewrite that clears the meeting_id of a cancelled row
cancel_meeting_clearing_id(rows, entry_token, t) ==
    [i \in 1..Len(rows) |->
        IF is_active_row(rows[i], entry_token)
        THEN [rows[i] EXCEPT !.status = "CancelledZh", !.cancelled_at = Stamp(t),
                             !.meeting_id = NoId]
        ELSE rows[i]]

\* cancel_meeting: the records written back
\* variant: the rows are stamped and their status is left as it was
cancel_meeting_stamp_only(rows, entry_token, t) ==
    [i \in 1..Len(rows) |->
        IF is_active_row(rows[i], entry_token)
        THEN [rows[i] EXCEPT !.cancelled_at = Stamp(t)]
        ELSE rows[i]]

cancel_meeting(rows, entry_token, t) ==
    [i \in 1..Len(rows) |->
        IF is_active_row(rows[i], entry_token)
        THEN [rows[i] EXCEPT !.status = "CancelledZh", !.cancelled_at = Stamp(t)]
        ELSE rows[i]]

\* find_meeting_by_token: the first row of the token that is not
\* cancelled, as an option: <<>> is None, <<record>> is Some(record)
RECURSIVE find_meeting_by_token(_, _)
find_meeting_by_token(rows, entry_token) ==
    IF rows = <<>> THEN <<>>
    ELSE LET record == Head(rows)
             is_cancelled == record.status \in {"Cancelled", "CancelledZh"}
         IN  IF record.entry_token = entry_token /\ ~is_cancelled
             THEN <<record>>
             ELSE find_meeting_by_token(Tail(rows), entry_token)

----------------------------------------------------------------------------
(* Signer: TencentAuth.  A text that is computed on is the sequence of its
   ASCII codes; a byte is a number in 0..255. *)

\* rand's gen_range over the half-open range low..high, drawn here from
\* the values at and next to its two ends and from its middle
gen_range(low, high) ==
    {n \in {low - 1, low, low + 1, (low + high) \div 2, high - 1, high, high + 1} :
        low <= n /\ n < high}

\* i64::to_string of a positive number: its decimal digits, first to last
to_string(n) ==
    LET len == CHOOSE d \in 1..9 : 10^(d - 1) <= n /\ n < 10^d
    IN  [i \in 1..len |-> 48 + ((n \div 10^(len - i)) % 10)]

\* the texts generate_nonce can return
generate_nonce == {to_string(n) : n \in gen_range(10000000, 99999999)}

\* hex::encode: two lowercase hexadecimal digits for each byte
hex_encode(bytes) ==
    [i \in 1..(2 * Len(bytes)) |->
        LET byte == bytes[(i + 1) \div 2]
            nibble == IF i % 2 = 1 THEN byte \div 16 ELSE byte % 16
        IN  IF nibble < 10 THEN 48 + nibble ELSE 87 + nibble]

\* general_purpose::STANDARD.encode: four characters of the alphabet
\* A-Z a-z 0-9 + / for each three bytes, padded with "="
STANDARD_encode(bytes) ==
    LET byte(j) == IF j <= Len(bytes) THEN bytes[j] ELSE 0
        letter(sextet) ==
            IF sextet < 26 THEN 65 + sextet
            ELSE IF sextet < 52 THEN 71 + sextet
            ELSE IF sextet < 62 THEN sextet - 4
            ELSE IF sextet = 62 THEN 43 ELSE 47
    IN  [i \in 1..(4 * ((Len(bytes) + 2) \div 3)) |->
            LET g == (i - 1) \div 4
                k == (i - 1) % 4
                v == byte(3 * g + 1) * 65536 + byte(3 * g + 2) * 256 + byte(3 * g + 3)
            IN  IF (k = 2 /\ 3 * g + 2 > Len(bytes)) \/ (k = 3 /\ 3 * g + 3 > Len(bytes))
                THEN 61
                ELSE letter((v \div 64^(3 - k)) % 64)]

\* Hmac<Sha256> of the hmac and sha2 crates: 32 bytes fixed by the key and
\* the message.  The digest itself is outside this model; a function of the
\* same inputs whose bytes range over 0..255 stands in for it.
HmacSha256(key, message) ==
    LET texts == <<"GET", "POST", "/v1/meetings", "/v1/meeting-rooms?page=1", "",
                   "create_meeting_request", "test_secret_id", "test_secret_key">>
        code(text) == CHOOSE i \in 1..Len(texts) : texts[i] = text
        header == message[3]
        seed == code(key) + 3 * code(message[1]) + 5 * code(header[2])
                + 7 * code(message[5]) + 11 * code(message[7])
                + 13 * header[4][Len(header[4])] + 17 * (header[6] % 1000)
    IN  [k \in 1..32 |-> (seed * (29 * k + 7) + k * k) % 256]

\* variant: the raw MAC bytes are base64-encoded
generate_signature_raw(secret_id, secret_key, method, uri, timestamp, nonce, body) ==
    LET header_string ==
            <<"X-TC-Key=", secret_id, "&X-TC-Nonce=", nonce,
              "&X-TC-Timestamp=", timestamp>>
        content == <<method, "\n", header_string, "\n", uri, "\n", body>>
    IN  STANDARD_encode(HmacSha256(secret_key, content))

\* the canonical string is method LF header string LF uri LF body, kept
\* here as the sequence of its parts
generate_signature(secret_id, secret_key, method, uri, timestamp, nonce, body) ==
    LET header_string ==
            <<"X-TC-Key=", secret_id, "&X-TC-Nonce=", nonce,
              "&X-TC-Timestamp=", timestamp>>
        content == <<method, "\n", header_string, "\n", uri, "\n", body>>
        hex_hash == hex_encode(HmacSha256(secret_key, content))
    IN  STANDARD_encode(hex_hash)

----------------------------------------------------------------------------
(* Upstream Client: TencentMeetingClient *)

\* what came back for a request sent upstream: the send failed, or an HTTP
\* response with its status and the shape of its body
SendError == [kind |-> "send_error", status |-> 0, body |-> ""]
HttpResponse(status, body) == [kind |-> "http", status |-> status, body |-> body]
NoAnswer == [kind |-> "none", status |-> 0, body |-> ""]

\* the answers to a create-meeting request: no connection, a meeting, an
\* empty meeting_info_list, an error status with an error_info body; and
\* to the other requests: no connection, an empty body, an error status
AnswersTo(op) ==
    IF op = "CreateMeeting"
    THEN { SendError, HttpResponse(200, "meeting_info"),
           HttpResponse(200, "empty_list"), HttpResponse(500, "error_info") }
    ELSE { SendError, HttpResponse(200, ""), HttpResponse(500, "error_info") }

\* reqwest StatusCode::is_success
\* TENCENT_MEETING_OPERATOR_ID parsed as name:id pairs
operators ==
    << [name |-> "admin", id |-> "admin_id"], [name |-> "alice", id |-> "alice_id"] >>

\* the first operator's id
default_operator_id == operators[1].id

to_ascii_lowercase(name) ==
    IF name = "Alice" THEN "alice" ELSE name

get_operator_id == default_operator_id

\* case-insensitive match on the name, the default operator otherwise
get_operator_id_by_name(name) ==
    IF \E i \in 1..Len(operators) :
          to_ascii_lowercase(operators[i].name) = to_ascii_lowercase(name)
    THEN operators[CHOOSE i \in 1..Len(operators) :
                      /\ to_ascii_lowercase(operators[i].name) = to_ascii_lowercase(name)
                      /\ \A j \in 1..(i - 1) :
                            to_ascii_lowercase(operators[j].name)
                                # to_ascii_lowercase(name)].id
    ELSE default_operator_id

\* the operator named by the form's user field, "default" when it is missing
get_operator_info(form) ==
    LET operator_name == IF form.user_field = NoUserField
                         THEN "default" ELSE form.user_field
    IN  [operator_name |-> operator_name,
         operator_id |-> get_operator_id_by_name(operator_name)]

is_success(status) == status >= 200 /\ status < 300

\* Result of a client operation: Err, or Ok with what was deserialized
ClientErr == [ok |-> FALSE, body |-> ""]
ClientOk(body) == [ok |-> TRUE, body |-> body]

\* create_meeting: request.send().await?, the status is logged, and the
\* body is deserialized as CreateMeetingResponse
create_meeting(answer) ==
    IF answer.kind = "send_error" THEN ClientErr
    ELSE IF answer.body \in {"meeting_info", "empty_list"}
         THEN ClientOk(answer.body)
         ELSE ClientErr

\* cancel_meeting of the client: the status is logged, Ok(()) is returned
client_cancel_meeting(answer) ==
    IF answer.kind = "send_error" THEN ClientErr ELSE ClientOk("")

\* book_rooms: the status is logged, Ok(()) is returned
book_rooms(answer) ==
    IF answer.kind = "send_error" THEN ClientErr ELSE ClientOk("")

\* release_rooms: the status is logged, Ok(()) is returned
release_rooms(answer) ==
    IF answer.kind = "send_error" THEN ClientErr ELSE ClientOk("")

----------------------------------------------------------------------------
(* Submission Orchestrator: handle_form_submission *)

\* time_slots.rs get_room_id_for_form
get_room_id_for_form(form_name) ==
    CASE form_name = "XA" -> "xa_room_id"
      [] form_name = "CD" -> "cd_room_id"
      [] OTHER -> "xa_room_id"

\* api.rs: reservation_status_fsf_field.to_lowercase().contains(the two
\* characters U+53D6 U+6D88): of the model's statuses only the form's
\* cancelled word contains them
is_cancellation_request(status) == status = "CancelledZh"

\* variant: only the ids of meetings that were not merged are recognised
is_simulation_id_unmerged(id) == id.pfx = "simulation-meeting-id-"

\* id.starts_with("simulation-")
is_simulation_id(id) ==
    id.pfx \in {"simulation-merged-meeting", "simulation-merged-meeting-",
                "simulation-meeting-id-"}

MeetingResult(meeting_id, merged, room_name, time_slots, success) ==
    [meeting_id |-> meeting_id, merged |-> merged, room_name |-> room_name,
     time_slots |-> time_slots, success |-> success]

NoResult == MeetingResult(NoId, FALSE, "", <<>>, FALSE)

\* WebhookResponse with the HTTP status it is sent under; Err(status) has
\* no body
WebhookResponse(status, success, meetings) ==
    [status |-> status, success |-> success,
     meetings_count |-> Len(meetings), meetings |-> meetings]

NoResp == WebhookResponse(0, FALSE, <<>>)

\* one upstream call of a task's log: result is "pending" while the task
\* is suspended on it
Call(op, meeting_id, start_time, end_time) ==
    [op |-> op, meeting_id |-> meeting_id, start_time |-> start_time,
     end_time |-> end_time, result |-> "pending",
     operator_id |-> get_operator_id]

Returned(calls, result) == [calls EXCEPT ![Len(calls)].result = result]

LabelsOf(slots) == [i \in 1..Len(slots) |-> slots[i].scheduled_label]

InitReq(mode) ==
    [pc |-> "idle", mode |-> mode, sub |-> NoSub,
     time_slots |-> <<>>, groups |-> <<>>, full |-> FALSE, gi |-> 0,
     cur |-> NoResult, results |-> <<>>, all_successful |-> TRUE,
     store |-> NoCall, store_err |-> FALSE, ret |-> "",
     cancelled |-> <<>>, ci |-> 0, successful |-> 0, failed |-> 0,
     calls |-> <<>>, answer |-> NoAnswer, resp |-> NoResp,
     served |-> 0, prev |-> [sub |-> NoSub, resp |-> NoResp],
     signed |-> [method |-> "", uri |-> "", body |-> "", timestamp |-> 0,
                 nonce |-> <<>>, signature |-> <<>>]]

\* api.rs:346: one group that holds every slot
all_merge(groups, time_slots) ==
    Len(groups) = 1 /\ Len(groups[1]) = Len(time_slots)

\* the slots the current run hands to create_* and store_*: the whole
\* unsorted list on the single-meeting path, the group otherwise
RunSlots(r) == IF r.full THEN r.time_slots ELSE r.groups[r.gi]

RunMerged(r) == r.full \/ Len(r.groups[r.gi]) > 1

\* api.rs:752-781: the summary response
Respond(r) ==
    LET successful_count ==
            Cardinality({i \in 1..Len(r.results) : r.results[i].meeting_id # NoId})
    IN  [r EXCEPT !.pc = "done",
                  !.resp = WebhookResponse(200,
                               r.all_successful /\ successful_count > 0,
                               r.results)]

\* the store call of the current run, for the meeting id it got
StoreCall(r, meeting_id, room_name) ==
    LET room_id == get_room_id_for_form(r.sub.form_name)
    IN  IF RunMerged(r)
        THEN store_merged_meeting(r.sub, meeting_id, room_name, room_id, RunSlots(r))
        ELSE store_meeting_with_time_slot(r.sub, meeting_id, room_name, room_id,
                                          r.groups[r.gi][1])

\* the simulation-mode id of run r.gi (the code's index i is r.gi - 1)
SimulationId(r) ==
    IF r.full THEN MeetingId("simulation-merged-meeting", 0, 0)
    ELSE IF Len(r.groups[r.gi]) > 1
         THEN MeetingId("simulation-merged-meeting-", r.gi - 1, 0)
         ELSE MeetingId("simulation-meeting-id-", r.gi - 1, 0)

\* begin run r.gi and run to its first suspension point: the ledger lock
\* in simulation mode, the CreateMeeting call otherwise
StartGroup(r) ==
    LET slots == RunSlots(r)
        sorted_slots == SortByStart(slots)
    IN  IF config.skip_meeting_creation
        THEN LET result == MeetingResult(SimulationId(r), RunMerged(r),
                                         slots[1].item_name, LabelsOf(slots), TRUE)
             IN  [r EXCEPT !.cur = result,
                           !.store = StoreCall(r, SimulationId(r), slots[1].item_name),
                           !.pc = "find_lock"]
        ELSE [r EXCEPT !.calls =
                           Append(@, [Call("CreateMeeting", NoId,
                                           sorted_slots[1].start_time,
                                           sorted_slots[Len(sorted_slots)].end_time)
                                         EXCEPT !.operator_id =
                                             get_operator_info(r.sub).operator_id]),
                       !.pc = "create_wait"]

\* variant: the loop leaves out the last run
AfterGroup_skipping_last(r) ==
    IF ~r.full /\ r.gi + 1 < Len(r.groups)
    THEN StartGroup([r EXCEPT !.gi = @ + 1])
    ELSE Respond(r)

\* the run is over: the next group of the loop, or the response
AfterGroup(r) ==
    IF ~r.full /\ r.gi < Len(r.groups)
    THEN StartGroup([r EXCEPT !.gi = @ + 1])
    ELSE Respond(r)

\* create_merged_meeting / create_meeting_with_time_slot: the Ok result
CreateResult(r, meeting_id) ==
    LET sorted_slots == SortByStart(RunSlots(r))
    IN  MeetingResult(meeting_id, RunMerged(r), sorted_slots[1].item_name,
                      LabelsOf(sorted_slots), TRUE)

\* a store call came back to its caller
StoreReturned(r, result) ==
    IF r.mode = "driver"
    THEN [r EXCEPT !.pc = "idle", !.ret = result]
    ELSE AfterGroup([r EXCEPT !.store_err = @ \/ result = "Err",
                              !.results = Append(@, r.cur)])

\* api.rs:206: the release call for cancelled_meetings[ci]
StartRelease(r) ==
    [r EXCEPT !.calls = Append(@, Call("ReleaseRooms", r.cancelled[r.ci][1], 0, 0)),
              !.pc = "release_wait"]

\* api.rs:259-282: the cancellation summary
CancelSummary(r) ==
    [r EXCEPT !.pc = "done",
              !.resp = WebhookResponse(200,
                           IF r.failed = 0 THEN TRUE ELSE r.successful > 0,
                           <<>>)]

NextCancellation(r) ==
    IF r.ci < Len(r.cancelled)
    THEN StartRelease([r EXCEPT !.ci = @ + 1])
    ELSE CancelSummary(r)

\* cancel_meeting came back to its caller with its pairs
CancelReturned(r, pairs) ==
    IF r.mode = "driver"
    THEN [r EXCEPT !.pc = "idle", !.ret = "Ok", !.cancelled = pairs]
    ELSE IF pairs = <<>>
         THEN [r EXCEPT !.pc = "done", !.resp = WebhookResponse(200, FALSE, <<>>)]
         ELSE IF \/ config.skip_meeting_creation
                 \/ \E i \in 1..Len(pairs) : is_simulation_id(pairs[i][1])
              THEN [r EXCEPT !.pc = "done", !.cancelled = pairs,
                             !.resp = WebhookResponse(200, TRUE, <<>>)]
              ELSE StartRelease([r EXCEPT !.cancelled = pairs, !.ci = 1])

----------------------------------------------------------------------------
(* Actions.  A task runs from one suspension point (an upstream call, the
   ledger lock) to the next in one step. *)

Set(p, r) == req' = [req EXCEPT ![p] = r]

\* api.rs:314-331: every slot of the form through the Slot Parser
ParsedSlots(sub) ==
    [i \in 1..Len(sub.field_1) |-> parse_time_slot(sub.field_1[i], now)]

\* some slot came back Err: the handler returns BAD_REQUEST
parse_failed(sub) ==
    \E i \in 1..Len(sub.field_1) : ~ParsedSlots(sub)[i].ok

\* api.rs:168-180: a cancellation request goes to the ledger
ReceiveCancellation(p) ==
    /\ req[p].pc = "idle" /\ req[p].mode = "handler"
    /\ \E sub \in Submissions :
          /\ is_cancellation_request(sub.status)
          /\ Set(p, [req[p] EXCEPT !.sub = sub, !.pc = "cancel_lock"])
    /\ UNCHANGED <<ledger, file_mutex, now, config>>

\* api.rs:326-329: a slot fails to parse
RejectSubmission(p) ==
    /\ req[p].pc = "idle" /\ req[p].mode = "handler"
    /\ \E sub \in Submissions :
          /\ ~is_cancellation_request(sub.status)
          /\ parse_failed(sub)
          /\ Set(p, [req[p] EXCEPT !.sub = sub, !.pc = "done",
                                   !.resp = WebhookResponse(400, FALSE, <<>>)])
    /\ UNCHANGED <<ledger, file_mutex, now, config>>

\* api.rs:306-346: parse, plan, and start the first run
ReceiveReservation(p) ==
    /\ req[p].pc = "idle" /\ req[p].mode = "handler"
    /\ \E sub \in Submissions :
          /\ ~is_cancellation_request(sub.status)
          /\ ~parse_failed(sub)
          /\ LET time_slots ==
                     [i \in 1..Len(sub.field_1) |-> ParsedSlots(sub)[i].slot]
             IN  \E order \in RoomOrders(time_slots) :
                    LET mergeable_groups == find_mergeable_groups(time_slots, order)
                        r == [req[p] EXCEPT
                                 !.sub = sub, !.time_slots = time_slots,
                                 !.groups = mergeable_groups,
                                 !.full = all_merge(mergeable_groups, time_slots),
                                 !.gi = 1]
                    IN  Set(p, IF mergeable_groups = <<>>
                               THEN Respond(r) ELSE StartGroup(r))
    /\ UNCHANGED <<ledger, file_mutex, now, config>>

\* create_meeting returns a meeting: book the room, or go on to store.
\* The upstream hands out a new meeting_id in every answer.
CreateMeetingOk(p) ==
    /\ req[p].pc = "create_wait"
    /\ \E answer \in AnswersTo("CreateMeeting") :
          /\ create_meeting(answer) = ClientOk("meeting_info")
          /\ LET r == [req[p] EXCEPT !.answer = answer]
                 id == UpstreamId(p + NumReqs * r.served, r.gi)
                 result == CreateResult(r, id)
                 r1 == [r EXCEPT
                           !.calls = [Returned(@, "ok") EXCEPT ![Len(@)].meeting_id = id],
                           !.cur = result,
                           !.all_successful = @ /\ result.success]
             IN  Set(p, IF ~config.skip_room_booking
                        THEN [r1 EXCEPT !.calls = Append(@, Call("BookRooms", id, 0, 0)),
                                        !.pc = "book_wait"]
                        ELSE [r1 EXCEPT !.store = StoreCall(r, id, result.room_name),
                                        !.pc = "find_lock"])
    /\ UNCHANGED <<ledger, file_mutex, now, config>>

\* variant: a room is booked for a run that got no meeting_id
CreateMeetingEmptyThenBook(p) ==
    /\ req[p].pc = "create_wait"
    /\ \E answer \in AnswersTo("CreateMeeting") :
          /\ create_meeting(answer) = ClientOk("empty_list")
          /\ LET r == [req[p] EXCEPT !.answer = answer]
                 result == CreateResult(r, NoId)
             IN  Set(p, [r EXCEPT
                            !.calls = Append(Returned(@, "ok"),
                                             Call("BookRooms", NoId, 0, 0)),
                            !.cur = result,
                            !.all_successful = @ /\ result.success,
                            !.pc = "book_wait"])
    /\ UNCHANGED <<ledger, file_mutex, now, config>>

\* create_meeting returns an empty meeting_info_list
CreateMeetingEmpty(p) ==
    /\ req[p].pc = "create_wait"
    /\ \E answer \in AnswersTo("CreateMeeting") :
          /\ create_meeting(answer) = ClientOk("empty_list")
          /\ LET r == [req[p] EXCEPT !.answer = answer]
                 result == CreateResult(r, NoId)
             IN  Set(p, AfterGroup([r EXCEPT
                                       !.calls = Returned(@, "ok"),
                                       !.all_successful = @ /\ result.success,
                                       !.results = Append(@, result)]))
    /\ UNCHANGED <<ledger, file_mutex, now, config>>

\* create_meeting fails: api.rs:481-485 on the single-meeting path,
\* api.rs:613-621 and 732-740 in the loop
CreateMeetingErr(p) ==
    /\ req[p].pc = "create_wait"
    /\ \E answer \in AnswersTo("CreateMeeting") :
          /\ ~create_meeting(answer).ok
          /\ LET r == [req[p] EXCEPT !.calls = Returned(@, "err"), !.answer = answer]
             IN  Set(p, IF r.full
                        THEN [r EXCEPT !.pc = "done",
                                       !.resp = WebhookResponse(500, FALSE, <<>>)]
                        ELSE AfterGroup([r EXCEPT !.all_successful = FALSE]))
    /\ UNCHANGED <<ledger, file_mutex, now, config>>

\* book_rooms returns, Ok or Err: either way the run goes on to store
BookRoomsReturns(p) ==
    /\ req[p].pc = "book_wait"
    /\ \E answer \in AnswersTo("BookRooms") :
          LET r == [req[p] EXCEPT !.answer = answer]
              result == IF book_rooms(answer).ok THEN "ok" ELSE "err"
          IN  Set(p, [r EXCEPT
                         !.calls = Returned(@, result),
                         !.store = StoreCall(r, r.cur.meeting_id, r.cur.room_name),
                         !.pc = "find_lock"])
    /\ UNCHANGED <<ledger, file_mutex, now, config>>

\* find_all_meetings_by_token takes the lock
FindAllLock(p) ==
    /\ req[p].pc = "find_lock"
    /\ file_mutex = 0
    /\ file_mutex' = p
    /\ Set(p, [req[p] EXCEPT !.pc = "find_body"])
    /\ UNCHANGED <<ledger, now, config>>

\* variant: the store function keeps the lock of its lookup while it calls
\* write_record
FindAllBody_keeping_lock(p) ==
    /\ req[p].pc = "find_body"
    /\ file_mutex = p
    /\ IF is_duplicate(ledger, req[p].store)
       THEN /\ file_mutex' = 0
            /\ Set(p, StoreReturned(req[p], "Ok"))
       ELSE /\ file_mutex' = p
            /\ Set(p, [req[p] EXCEPT !.pc = "write_lock"])
    /\ UNCHANGED <<ledger, now, config>>

\* find_all_meetings_by_token reads the file and drops the lock; the store
\* function returns Ok on a duplicate, else builds the record and calls
\* write_record
FindAllBody(p) ==
    /\ req[p].pc = "find_body"
    /\ file_mutex = p
    /\ file_mutex' = 0
    /\ Set(p, IF is_duplicate(ledger, req[p].store)
              THEN StoreReturned(req[p], "Ok")
              ELSE [req[p] EXCEPT !.pc = "write_lock"])
    /\ UNCHANGED <<ledger, now, config>>

\* write_record takes the lock
WriteLock(p) ==
    /\ req[p].pc = "write_lock"
    /\ file_mutex = 0
    /\ file_mutex' = p
    /\ Set(p, [req[p] EXCEPT !.pc = "write_body"])
    /\ UNCHANGED <<ledger, now, config>>

\* write_record appends the row and drops the lock
WriteRecord(p) ==
    /\ req[p].pc = "write_body"
    /\ file_mutex = p
    /\ file_mutex' = 0
    /\ ledger' = write_record(ledger, MeetingRecord(req[p].store))
    /\ Set(p, StoreReturned(req[p], "Ok"))
    /\ UNCHANGED <<now, config>>

\* write_record cannot open or write the file: Err, nothing appended
WriteRecordFails(p) ==
    /\ req[p].pc = "write_body"
    /\ file_mutex = p
    /\ file_mutex' = 0
    /\ Set(p, StoreReturned(req[p], "Err"))
    /\ UNCHANGED <<ledger, now, config>>

\* cancel_meeting takes the lock
CancelLock(p) ==
    /\ req[p].pc = "cancel_lock"
    /\ file_mutex = 0
    /\ file_mutex' = p
    /\ Set(p, [req[p] EXCEPT !.pc = "cancel_body"])
    /\ UNCHANGED <<ledger, now, config>>

\* cancel_meeting under the lock: collect, rewrite the file, return
CancelBody(p) ==
    /\ req[p].pc = "cancel_body"
    /\ file_mutex = p
    /\ file_mutex' = 0
    /\ LET pairs == cancelled_meetings(ledger, req[p].sub.token)
       IN  /\ ledger' = IF pairs = <<>> THEN ledger
                        ELSE cancel_meeting(ledger, req[p].sub.token, now)
           /\ Set(p, CancelReturned(req[p], pairs))
    /\ UNCHANGED <<now, config>>

\* release_rooms returns Ok: cancel the meeting
ReleaseRoomsOk(p) ==
    /\ req[p].pc = "release_wait"
    /\ \E answer \in AnswersTo("ReleaseRooms") :
          /\ release_rooms(answer).ok
          /\ LET r == [req[p] EXCEPT !.answer = answer]
             IN  Set(p, [r EXCEPT
                            !.calls = Append(Returned(@, "ok"),
                                             Call("CancelMeeting", r.cancelled[r.ci][1], 0, 0)),
                            !.pc = "cancel_wait"])
    /\ UNCHANGED <<ledger, file_mutex, now, config>>

\* variant: a failed release is counted and the meeting cancelled all the same
ReleaseRoomsErrThenCancel(p) ==
    /\ req[p].pc = "release_wait"
    /\ \E answer \in AnswersTo("ReleaseRooms") :
          /\ ~release_rooms(answer).ok
          /\ LET r == [req[p] EXCEPT !.answer = answer]
             IN  Set(p, [r EXCEPT
                            !.calls = Append(Returned(@, "err"),
                                             Call("CancelMeeting", r.cancelled[r.ci][1], 0, 0)),
                            !.pc = "cancel_wait"])
    /\ UNCHANGED <<ledger, file_mutex, now, config>>

\* release_rooms returns Err: this meeting failed, on to the next
ReleaseRoomsErr(p) ==
    /\ req[p].pc = "release_wait"
    /\ \E answer \in AnswersTo("ReleaseRooms") :
          /\ ~release_rooms(answer).ok
          /\ Set(p, NextCancellation([req[p] EXCEPT !.calls = Returned(@, "err"),
                                                    !.answer = answer,
                                                    !.failed = @ + 1]))
    /\ UNCHANGED <<ledger, file_mutex, now, config>>

CancelMeetingOk(p) ==
    /\ req[p].pc = "cancel_wait"
    /\ \E answer \in AnswersTo("CancelMeeting") :
          /\ client_cancel_meeting(answer).ok
          /\ Set(p, NextCancellation([req[p] EXCEPT !.calls = Returned(@, "ok"),
                                                    !.answer = answer,
                                                    !.successful = @ + 1]))
    /\ UNCHANGED <<ledger, file_mutex, now, config>>

CancelMeetingErr(p) ==
    /\ req[p].pc = "cancel_wait"
    /\ \E answer \in AnswersTo("CancelMeeting") :
          /\ ~client_cancel_meeting(answer).ok
          /\ Set(p, NextCancellation([req[p] EXCEPT !.calls = Returned(@, "err"),
                                                    !.answer = answer,
                                                    !.failed = @ + 1]))
    /\ UNCHANGED <<ledger, file_mutex, now, config>>

\* time passes
Tick ==
    /\ now < NowStart + TickMins * MaxTicks
    /\ now' = now + TickMins
    /\ UNCHANGED <<req, ledger, file_mutex, config>>

\* the client sends its next request on the same connection once the last
\* one is answered; prev keeps what was sent and answered last
NextRequest(p) ==
    /\ req[p].pc = "done" /\ req[p].mode = "handler"
    /\ req[p].served + 1 < MaxServed
    /\ Set(p, [InitReq("handler") EXCEPT
                  !.served = req[p].served + 1,
                  !.prev = [sub |-> req[p].sub, resp |-> req[p].resp]])
    /\ UNCHANGED <<ledger, file_mutex, now, config>>

\* the service is stopped and started again with other settings in its
\* environment; the CSV file stays as it is
Restart ==
    /\ \A p \in Reqs : req[p].pc = "idle"
    /\ config' \in [skip_meeting_creation : BOOLEAN, skip_room_booking : BOOLEAN]
    /\ config' # config
    /\ UNCHANGED <<req, ledger, file_mutex, now>>

----------------------------------------------------------------------------
(* A caller of the ledger's own interface, as the tests of database.rs
   drive it: one call after the other *)

DriverTask == CHOOSE p \in Reqs : \A q \in Reqs : p <= q

DriverSlots ==
    { <<parse_time_slot(A0910, NowStart).slot>>,
      <<parse_time_slot(A0910, NowStart).slot, parse_time_slot(A1011, NowStart).slot>> }

DriverIds == {UpstreamId(1, 1), UpstreamId(2, 1)}

DriverStore(p) ==
    /\ req[p].pc = "idle" /\ req[p].mode = "driver"
    /\ Len(ledger) < MaxRows
    /\ \E token \in Tokens, status \in ReservedValues,
          slots \in DriverSlots, id \in DriverIds :
          LET form == Submission("XA", token, <<>>, status, webhook_auth_token)
              room_id == get_room_id_for_form(form.form_name)
          IN  Set(p, [req[p] EXCEPT
                         !.sub = form,
                         !.store =
                             IF Len(slots) > 1
                             THEN store_merged_meeting(form, id, "RoomA", room_id, slots)
                             ELSE store_meeting_with_time_slot(form, id, "RoomA",
                                                               room_id, slots[1]),
                         !.ret = "",
                         !.pc = "find_lock"])
    /\ UNCHANGED <<ledger, file_mutex, now, config>>

DriverCancel(p) ==
    /\ req[p].pc = "idle" /\ req[p].mode = "driver"
    /\ \E token \in Tokens :
          Set(p, [req[p] EXCEPT !.sub = [NoSub EXCEPT !.token = token],
                                !.store = NoCall, !.ret = "",
                                !.pc = "cancel_lock"])
    /\ UNCHANGED <<ledger, file_mutex, now, config>>

----------------------------------------------------------------------------
(* Specifications *)

Configs == [skip_meeting_creation : BOOLEAN, skip_room_booking : BOOLEAN]

Init ==
    /\ req = [p \in Reqs |-> InitReq("handler")]
    /\ ledger = <<>>
    /\ file_mutex = 0
    /\ now = NowStart
    /\ config \in Configs

Next ==
    \E p \in Reqs :
          \/ ReceiveCancellation(p)
          \/ RejectSubmission(p)
          \/ ReceiveReservation(p)
          \/ CreateMeetingOk(p)
          \/ CreateMeetingEmpty(p)
          \/ CreateMeetingErr(p)
          \/ BookRoomsReturns(p)
          \/ FindAllLock(p)
          \/ FindAllBody(p)
          \/ WriteLock(p)
          \/ WriteRecord(p)
          \/ WriteRecordFails(p)
          \/ CancelLock(p)
          \/ CancelBody(p)
          \/ ReleaseRoomsOk(p)
          \/ ReleaseRoomsErr(p)
          \/ CancelMeetingOk(p)
          \/ CancelMeetingErr(p)

\* concurrent webhook requests against one ledger, all handled while the
\* clock shows NowStart
Spec == Init /\ [][Next]_vars

InitLedger ==
    /\ req = [p \in Reqs |-> InitReq("driver")]
    /\ ledger = <<>>
    /\ file_mutex = 0
    /\ now = NowStart
    /\ config = [skip_meeting_creation |-> FALSE, skip_room_booking |-> FALSE]

NextLedger ==
    \/ Tick
    \/ DriverStore(DriverTask)
    \/ DriverCancel(DriverTask)
    \/ FindAllLock(DriverTask)
    \/ FindAllBody(DriverTask)
    \/ WriteLock(DriverTask)
    \/ WriteRecord(DriverTask)
    \/ CancelLock(DriverTask)
    \/ CancelBody(DriverTask)

\* the ledger driven call by call, on a file that can be read and written
SpecLedger == InitLedger /\ [][NextLedger]_vars

\* one client whose requests arrive one after the other, on a file that
\* can be read and written, with restarts of the service in between
NextSeq ==
    \/ Restart
    \/ NextRequest(DriverTask)
    \/ ReceiveCancellation(DriverTask)
    \/ RejectSubmission(DriverTask)
    \/ ReceiveReservation(DriverTask)
    \/ CreateMeetingOk(DriverTask)
    \/ CreateMeetingEmpty(DriverTask)
    \/ CreateMeetingErr(DriverTask)
    \/ BookRoomsReturns(DriverTask)
    \/ FindAllLock(DriverTask)
    \/ FindAllBody(DriverTask)
    \/ WriteLock(DriverTask)
    \/ WriteRecord(DriverTask)
    \/ CancelLock(DriverTask)
    \/ CancelBody(DriverTask)
    \/ ReleaseRoomsOk(DriverTask)
    \/ ReleaseRoomsErr(DriverTask)
    \/ CancelMeetingOk(DriverTask)
    \/ CancelMeetingErr(DriverTask)

SpecSeq == Init /\ [][NextSeq]_vars

----------------------------------------------------------------------------
(* Concurrent cancellation submissions against the rows that earlier
   reservations left in the file *)

\* the row a served reservation of one slot wrote
ReservedRow(entry_token, meeting_id, raw) ==
    LET form == Submission("XA", entry_token, <<raw>>, "ReservedZh", webhook_auth_token)
    IN  MeetingRecord(store_meeting_with_time_slot(
            form, meeting_id, raw.item_name, get_room_id_for_form(form.form_name),
            parse_time_slot(raw, NowStart).slot))

ReservedLedgers ==
    { <<ReservedRow("tok1", UpstreamId(1, 1), A0910)>>,
      <<ReservedRow("tok1", UpstreamId(1, 1), A0910),
        ReservedRow("tok1", UpstreamId(1, 2), B0910)>>,
      <<ReservedRow("tok1", UpstreamId(1, 1), A0910),
        ReservedRow("tok2", UpstreamId(2, 1), B0910)>> }

InitCancel ==
    /\ req = [p \in Reqs |-> InitReq("handler")]
    /\ ledger \in ReservedLedgers
    /\ file_mutex = 0
    /\ now = NowStart
    /\ config \in Configs

NextCancel ==
    \E p \in Reqs :
          \/ ReceiveCancellation(p)
          \/ CancelLock(p)
          \/ CancelBody(p)
          \/ ReleaseRoomsOk(p)
          \/ ReleaseRoomsErr(p)
          \/ CancelMeetingOk(p)
          \/ CancelMeetingErr(p)

SpecCancel == InitCancel /\ [][NextCancel]_vars

\* one task handles a reservation request while the others handle
\* cancellation requests
NextFair ==
    \/ ReceiveReservation(DriverTask)
    \/ CreateMeetingOk(DriverTask)
    \/ CreateMeetingEmpty(DriverTask)
    \/ CreateMeetingErr(DriverTask)
    \/ BookRoomsReturns(DriverTask)
    \/ FindAllLock(DriverTask)
    \/ FindAllBody(DriverTask)
    \/ WriteLock(DriverTask)
    \/ WriteRecord(DriverTask)
    \/ WriteRecordFails(DriverTask)
    \/ \E p \in Reqs \ {DriverTask} :
          \/ ReceiveCancellation(p)
          \/ CancelLock(p)
          \/ CancelBody(p)
          \/ ReleaseRoomsOk(p)
          \/ ReleaseRoomsErr(p)
          \/ CancelMeetingOk(p)
          \/ CancelMeetingErr(p)

\* a fair scheduler: a task that can take the lock, or that holds it, is
\* not left waiting forever.  Nothing is assumed of the upstream, which may
\* never answer.
LedgerFairness ==
    \A p \in Reqs :
        /\ WF_vars(FindAllLock(p))
        /\ WF_vars(FindAllBody(p))
        /\ WF_vars(WriteLock(p))
        /\ WF_vars(WriteRecord(p) \/ WriteRecordFails(p))
        /\ WF_vars(CancelLock(p))
        /\ WF_vars(CancelBody(p))

SpecFair == Init /\ [][NextFair]_vars /\ LedgerFairness

----------------------------------------------------------------------------
(* The client signs a request: client.rs:447-451 and 510-513, the same
   three lines in every call *)

SignRequest(p) ==
    /\ req[p].pc = "idle" /\ req[p].mode = "handler"
    /\ \E call \in { <<"GET", "/v1/meeting-rooms?page=1", "">>,
                     <<"POST", "/v1/meetings", "create_meeting_request">>,
                     <<"POST", "/v1/meetings", "">> },
          nonce \in generate_nonce :
          LET timestamp == now * 60
          IN  Set(p, [req[p] EXCEPT
                         !.pc = "signed",
                         !.signed =
                             [method |-> call[1], uri |-> call[2], body |-> call[3],
                              timestamp |-> timestamp, nonce |-> nonce,
                              signature |->
                                  generate_signature("test_secret_id",
                                      "test_secret_key", call[1], call[2],
                                      timestamp, nonce, call[3])]])
    /\ UNCHANGED <<ledger, file_mutex, now, config>>

SpecAuth == Init /\ [][Tick \/ \E p \in Reqs : SignRequest(p)]_vars

----------------------------------------------------------------------------
(* A caller of the Slot Parser and the Merge Planner, as the tests of
   time_slots.rs drive them: one call after the other, the clock moving
   in between *)

\* the labels of the raw slots parsed: an hour, half an hour, equal
\* fragments, a range over midnight, no range at all
ParserLabels ==
    { Label(540, 600), Label(840, 870), Label(540, 540), Label(1380, 60),
      [date |-> TheDate, from |-> NoRange, to |-> NoRange] }

\* their scheduled_at: unparseable, before the first instant of the clock,
\* that instant, after it
ParserStarts ==
    { BadTime, NowStart - 130, NowStart - 59, NowStart - 30, NowStart,
      NowStart + 40, NowStart + 100 }

ParserInputs ==
    [item_name : {"RoomA"}, scheduled_label : ParserLabels,
     scheduled_at : ParserStarts]

\* the slots handed to the planner: two rooms; ranges that touch, that
\* overlap, and that leave a gap
PlannerRanges == { <<540, 600>>, <<570, 630>>, <<600, 660>>, <<720, 780>> }

PlannerSlots ==
    { TimeSlot(room, Label(range[1], range[2]), range[1], range[2]) :
        room \in {"RoomA", "RoomB"}, range \in PlannerRanges }

PlannerInputs == UNION { [1..n -> PlannerSlots] : n \in 0..MaxSlots }

\* the calls made: the caller holds the item it will parse, or the list
\* it will have planned
SlotCalls ==
    { [InitReq("slots") EXCEPT !.sub = [NoSub EXCEPT !.field_1 = <<reservation>>],
                               !.pc = "parse"] : reservation \in ParserInputs }
    \cup
    { [InitReq("slots") EXCEPT !.time_slots = slots, !.pc = "plan"] :
        slots \in PlannerInputs }

\* parse_time_slot(&item) is called and returns
DriverParse(p) ==
    /\ req[p].mode = "slots" /\ req[p].pc = "parse"
    /\ LET result == parse_time_slot(req[p].sub.field_1[1], now)
       IN  Set(p, [req[p] EXCEPT
                      !.time_slots = IF result.ok THEN <<result.slot>> ELSE <<>>,
                      !.ret = IF result.ok THEN "Ok" ELSE "Err",
                      !.pc = "parsed"])
    /\ UNCHANGED <<ledger, file_mutex, now, config>>

\* find_mergeable_groups(&slots) is called and returns
DriverPlan(p) ==
    /\ req[p].mode = "slots" /\ req[p].pc = "plan"
    /\ \E order \in RoomOrders(req[p].time_slots) :
          Set(p, [req[p] EXCEPT
                     !.groups = find_mergeable_groups(req[p].time_slots, order),
                     !.pc = "planned"])
    /\ UNCHANGED <<ledger, file_mutex, now, config>>

InitSlots ==
    /\ \E r \in SlotCalls :
          req = [p \in Reqs |-> IF p = DriverTask THEN r ELSE InitReq("slots")]
    /\ ledger = <<>>
    /\ file_mutex = 0
    /\ now = NowStart
    /\ config = [skip_meeting_creation |-> FALSE, skip_room_booking |-> FALSE]

NextSlots ==
    \/ Tick
    \/ DriverParse(DriverTask)
    \/ DriverPlan(DriverTask)

\* the two pure functions called on their own
SpecSlots == InitSlots /\ [][NextSlots]_vars

----------------------------------------------------------------------------
(* Properties *)

\* the rows that carry the key of a store call
KeyRows(rows, call) ==
    {i \in 1..Len(rows) :
        /\ rows[i].entry_token = call.entry_token
        /\ rows[i].scheduled_label = call.scheduled_label
        /\ rows[i].status = call.status}

IsReservation(r) == r.sub # NoSub /\ ~is_cancellation_request(r.sub.status)
IsCancellation(r) == r.sub # NoSub /\ is_cancellation_request(r.sub.status)

TokenRows(rows, token) == {i \in 1..Len(rows) : rows[i].entry_token = token}

\* a store call of the driver returns in this step
StoreReturns(p) ==
    /\ req[p].mode = "driver"
    /\ req[p].pc \in {"find_body", "write_body"}
    /\ req'[p].pc = "idle"

\* C1: sequential idempotence of store.  Whenever a store call made after
\* the previous call has returned comes back, it reports success and the
\* ledger holds exactly one row with the call's (token, scheduled_label,
\* status); if such a row was there already the file is left as it was, so
\* the row keeps the meeting_id it was first stored with.
C1_StoreIdempotent ==
    [][\A p \in Reqs :
          StoreReturns(p) =>
              /\ req'[p].ret = "Ok"
              /\ Cardinality(KeyRows(ledger', req[p].store)) = 1
              /\ (KeyRows(ledger, req[p].store) # {} => ledger' = ledger)]_vars

\* C1 witness: a store call has returned Ok while the one row with its key
\* carries another meeting_id, that of the first call
C1_Witness ==
    \E p \in Reqs :
        /\ req[p].mode = "driver" /\ req[p].pc = "idle" /\ req[p].ret = "Ok"
        /\ req[p].store # NoCall
        /\ \E i \in KeyRows(ledger, req[p].store) :
              ledger[i].meeting_id # req[p].store.meeting_id

\* C2: store is atomic under concurrent callers: no two rows of the ledger
\* ever carry the same (token, scheduled_label, status).
C2_StoreAtomic ==
    \A i, j \in 1..Len(ledger) :
        (/\ ledger[i].entry_token = ledger[j].entry_token
         /\ ledger[i].scheduled_label = ledger[j].scheduled_label
         /\ ledger[i].status = ledger[j].status) => i = j

\* a cancel call of the driver returns in this step
CancelReturns(p) ==
    /\ req[p].mode = "driver"
    /\ req[p].pc = "cancel_body"
    /\ req'[p].pc = "idle"

\* C3: cancel(token) returns the (meeting_id, room_id) pair of every row
\* that carried the token and a reserved status, one entry per row in file
\* order and nothing else; exactly those rows become cancelled with a
\* non-empty cancelled_at and keep their other fields; every other row is
\* untouched; no row of the token is left reserved, so a cancel directly
\* after returns the empty list.
C3_CancelExact ==
    [][\A p \in Reqs :
          CancelReturns(p) =>
              LET token == req[p].sub.token
                  hit == {i \in TokenRows(ledger, token) :
                              ledger[i].status \in ReservedValues}
                  rank(i) == Cardinality({j \in hit : j <= i})
                  pairs == req'[p].cancelled
              IN  /\ Len(pairs) = Cardinality(hit)
                  /\ \A i \in hit :
                        pairs[rank(i)] = <<ledger[i].meeting_id, ledger[i].room_id>>
                  /\ Len(ledger') = Len(ledger)
                  /\ \A i \in 1..Len(ledger) :
                        IF i \in hit
                        THEN /\ ledger'[i].status \in CancelledValues
                             /\ ledger'[i].cancelled_at # NoStamp
                             /\ ledger'[i] =
                                   [ledger[i] EXCEPT
                                       !.status = ledger'[i].status,
                                       !.cancelled_at = ledger'[i].cancelled_at]
                        ELSE ledger'[i] = ledger[i]
                  /\ \A i \in TokenRows(ledger', token) :
                        ledger'[i].status \notin ReservedValues]_vars

\* C3 witness: a cancel has returned one pair from a ledger that holds two
\* rows of its token, the other cancelled at an earlier instant
C3_Witness ==
    \E p \in Reqs :
        /\ req[p].mode = "driver" /\ req[p].pc = "idle" /\ req[p].ret = "Ok"
        /\ req[p].store = NoCall
        /\ Len(req[p].cancelled) = 1
        /\ \E i, j \in TokenRows(ledger, req[p].sub.token) :
              /\ ledger[i].cancelled_at = Stamp(NowStart)
              /\ ledger[j].cancelled_at = Stamp(NowStart + TickMins)

\* the rows of a token that are reserved
ReservedRows(rows, token) ==
    {i \in TokenRows(rows, token) : rows[i].status \in ReservedValues}

\* the others have not sent anything yet
Alone(p) == \A q \in Reqs \ {p} : req[q].pc = "idle"

\* C4: every planned meeting is recorded.  A reservation handled on an
\* empty ledger in which every run got a meeting_id and every ledger write
\* succeeded leaves exactly one reserved row per planned run.
C4_EveryRunRecorded ==
    \A p \in Reqs :
        (/\ req[p].pc = "done" /\ IsReservation(req[p]) /\ Alone(p)
         /\ req[p].resp.status = 200
         /\ ~req[p].store_err
         /\ Len(req[p].results) = Len(req[p].groups)
         /\ \A k \in 1..Len(req[p].results) : req[p].results[k].meeting_id # NoId)
        => Cardinality(ReservedRows(ledger, req[p].sub.token)) = Len(req[p].groups)

\* the failures among a task's ReleaseRooms and CancelMeeting calls
FailedCalls(calls) ==
    {j \in 1..Len(calls) :
        calls[j].op \in {"ReleaseRooms", "CancelMeeting"} /\ calls[j].result = "err"}

\* C5: cancellation ordering.  Every CancelMeeting(m) a task issues comes
\* directly after its own ReleaseRooms(m) and only when that returned
\* success; and once the task has answered, every pair the ledger gave it
\* has had its ReleaseRooms issued, whatever failed before it, and the
\* failures counted are the failed calls, one per meeting.
C5_ReleaseBeforeCancel ==
    \A p \in Reqs :
        LET calls == req[p].calls
            pairs == req[p].cancelled
        IN  /\ \A j \in 1..Len(calls) :
                  calls[j].op = "CancelMeeting" =>
                      /\ j > 1
                      /\ calls[j - 1].op = "ReleaseRooms"
                      /\ calls[j - 1].meeting_id = calls[j].meeting_id
                      /\ calls[j - 1].result = "ok"
            /\ (req[p].pc = "done" /\ req[p].ci > 0) =>
                  /\ \A i \in 1..Len(pairs) :
                        \E j \in 1..Len(calls) :
                            /\ calls[j].op = "ReleaseRooms"
                            /\ calls[j].meeting_id = pairs[i][1]
                  /\ req[p].failed = Cardinality(FailedCalls(calls))
                  /\ req[p].failed + req[p].successful = Len(pairs)

\* C5 witness: a cancellation of two meetings has answered; the release
\* of the first failed and the second was released and cancelled
C5_Witness ==
    \E p \in Reqs :
        /\ req[p].pc = "done" /\ Len(req[p].cancelled) = 2
        /\ Len(req[p].calls) = 3
        /\ req[p].calls[1].op = "ReleaseRooms" /\ req[p].calls[1].result = "err"
        /\ req[p].calls[2].op = "ReleaseRooms" /\ req[p].calls[2].result = "ok"
        /\ req[p].calls[3].op = "CancelMeeting" /\ req[p].calls[3].result = "ok"

\* C6: a reservation and a cancellation of the same token that race end in
\* one of the two serial orders: once both have answered, the rows of the
\* token are all reserved or all cancelled.
C6_SerialEquivalence ==
    \A p, q \in Reqs :
        (/\ req[p].pc = "done" /\ IsReservation(req[p]) /\ req[p].resp.status = 200
         /\ req[q].pc = "done" /\ IsCancellation(req[q])
         /\ req[p].sub.token = req[q].sub.token
         /\ \A o \in Reqs \ {p, q} : req[o].pc = "idle")
        => LET rows == TokenRows(ledger, req[p].sub.token)
           IN  \/ \A i \in rows : ledger[i].status \in ReservedValues
               \/ \A i \in rows : ledger[i].status \in CancelledValues

\* C7: abandonment safety.  While a task is suspended on BookRooms the
\* ledger already holds a row with the meeting_id CreateMeeting returned.
C7_RowBeforeBook ==
    \A p \in Reqs :
        req[p].pc = "book_wait" =>
            \E i \in 1..Len(ledger) : ledger[i].meeting_id = req[p].cur.meeting_id

\* a raw slot the Slot Parser must refuse at this instant: scheduled_at
\* unparseable, or start and end both before now
MustFail(raw) ==
    \/ raw.scheduled_at = BadTime
    \/ LET f == raw.scheduled_label.from
           t == raw.scheduled_label.to
           e == raw.scheduled_at + (IF t >= f THEN t - f ELSE MinutesPerDay + t - f)
       IN  raw.scheduled_at < now /\ e < now

\* C8: all or nothing on a slot failure.  A reservation with a slot that
\* is unparseable or entirely in the past is answered 400 in the step that
\* receives it, with no upstream call issued and the ledger untouched, and
\* an answered task does nothing more.
C8_AllOrNothing ==
    [][\A p \in Reqs :
          /\ (/\ req[p].pc = "idle" /\ req'[p].pc # "idle"
              /\ req'[p].mode = "handler"
              /\ ~is_cancellation_request(req'[p].sub.status)
              /\ \E i \in 1..Len(req'[p].sub.field_1) :
                    MustFail(req'[p].sub.field_1[i]))
             => /\ req'[p].pc = "done"
                /\ req'[p].resp.status = 400
                /\ req'[p].calls = <<>>
                /\ ledger' = ledger
          /\ req[p].pc = "done" => req'[p] = req[p]]_vars

\* C8 witness: a submission was answered 400 although one of its slots
\* parses
C8_Witness ==
    \E p \in Reqs :
        /\ req[p].pc = "done" /\ req[p].resp.status = 400
        /\ \E i \in 1..Len(req[p].sub.field_1) :
              parse_time_slot(req[p].sub.field_1[i], now).ok
        /\ \E i \in 1..Len(req[p].sub.field_1) :
              /\ req[p].sub.field_1[i].scheduled_at # BadTime
              /\ MustFail(req[p].sub.field_1[i])

\* C9: a CreateMeeting failure never aborts the submission: a reservation
\* one of whose CreateMeeting calls failed is answered 200 with
\* success=false and lists the failed run as failed.
C9_CreateFailureContinues ==
    \A p \in Reqs :
        (/\ req[p].pc = "done" /\ IsReservation(req[p])
         /\ \E j \in 1..Len(req[p].calls) :
               /\ req[p].calls[j].op = "CreateMeeting"
               /\ req[p].calls[j].result = "err")
        => /\ req[p].resp.status = 200
           /\ ~req[p].resp.success
           /\ \E k \in 1..Len(req[p].resp.meetings) :
                 ~req[p].resp.meetings[k].success

\* C10: a reservation answered success=true has a ledger row: the ledger
\* holds a row with the submission's token.
C10_SuccessMeansStored ==
    \A p \in Reqs :
        (req[p].pc = "done" /\ IsReservation(req[p]) /\ req[p].resp.success)
        => TokenRows(ledger, req[p].sub.token) # {}

\* a task that answered a cancellation after going through the
\* release/cancel loop (the path that is not simulated)
CancelledUpstream(p) ==
    req[p].pc = "done" /\ IsCancellation(req[p]) /\ req[p].ci > 0

\* C11: the cancellation response flag: on the path that is not simulated
\* success is true exactly when no meeting failed.
C11_SuccessIffNoFailure ==
    \A p \in Reqs :
        CancelledUpstream(p) => (req[p].resp.success <=> req[p].failed = 0)

\* the calls of a task's log with the given operation and result
CallsOf(calls, op, result) ==
    {j \in 1..Len(calls) : calls[j].op = op /\ calls[j].result = result}

\* C12: a BookRooms failure does not fail the run.  Once a reservation is
\* answered, every meeting whose BookRooms failed is listed as a success
\* with its meeting_id, the ledger holds a reserved row carrying that
\* meeting_id, and the top-level success is true unless a CreateMeeting
\* failed or returned no meeting.
C12_BookFailureKeepsRun ==
    \A p \in Reqs :
        (/\ req[p].pc = "done" /\ req[p].sub.status \in ReservedValues
         /\ req[p].resp.status = 200)
        => \A j \in CallsOf(req[p].calls, "BookRooms", "err") :
               LET id == req[p].calls[j].meeting_id
               IN  /\ \E k \in 1..Len(req[p].resp.meetings) :
                         /\ req[p].resp.meetings[k].meeting_id = id
                         /\ req[p].resp.meetings[k].success
                   /\ \E i \in 1..Len(ledger) :
                         /\ ledger[i].meeting_id = id
                         /\ ledger[i].status \in ReservedValues
                   /\ (/\ CallsOf(req[p].calls, "CreateMeeting", "err") = {}
                       /\ \A k \in 1..Len(req[p].resp.meetings) :
                             req[p].resp.meetings[k].meeting_id # NoId)
                      => req[p].resp.success

\* the id begins with the literal text "simulation-"
HasSimulationPrefix(id) ==
    id.pfx \in {"simulation-merged-meeting", "simulation-merged-meeting-",
                "simulation-meeting-id-"}

\* a handler's cancel_meeting call returns in this step
HandlerCancelReturns(p) ==
    /\ req[p].mode = "handler"
    /\ req[p].pc = "cancel_body"
    /\ req'[p].pc # "cancel_body"

SecondProcessing(p) ==
    /\ req[p].mode = "handler" /\ req[p].served >= 1
    /\ req[p].sub # NoSub /\ req[p].sub = req[p].prev.sub
    /\ ~is_cancellation_request(req[p].sub.status)
    /\ req[p].sub.field_1 # <<>>
    /\ config.skip_meeting_creation
    /\ req[p].prev.resp.status = 200
    /\ req[p].prev.resp.meetings # <<>>
    /\ \A k \in 1..Len(req[p].prev.resp.meetings) :
          HasSimulationPrefix(req[p].prev.resp.meetings[k].meeting_id)

PlannedLabels(groups) == {combined_label(groups[g]) : g \in 1..Len(groups)}

C16_UnknownStatusRejected ==
    \A p \in Reqs :
        (/\ req[p].pc = "done" /\ req[p].mode = "handler"
         /\ req[p].sub.status \notin ReservedValues \cup CancelledValues)
        => /\ req[p].resp.status = 400
           /\ req[p].calls = <<>>
           /\ \A i \in 1..Len(ledger) : ledger[i].status # req[p].sub.status

\* C17: an empty slot list is rejected.  A reservation without slots is
\* answered 400.
C17_EmptySlotsRejected ==
    \A p \in Reqs :
        (/\ req[p].pc = "done" /\ req[p].mode = "handler"
         /\ req[p].sub.status \in ReservedValues
         /\ req[p].sub.field_1 = <<>>)
        => req[p].resp.status = 400

\* the first request of a client is answered: a reservation of one slot
\* that got its meeting
SingleSlotReserved(p) ==
    /\ req[p].pc = "done" /\ req[p].mode = "handler" /\ req[p].served = 0
    /\ req[p].sub.status \in ReservedValues
    /\ Len(req[p].sub.field_1) = 1
    /\ req[p].resp.status = 200
    /\ \E k \in 1..Len(req[p].resp.meetings) :
          req[p].resp.meetings[k].meeting_id # NoId

\* C18: a single-slot reservation is answered success=true with
\* meetings_count=1 and meetings[0].merged=false, and the ledger holds one
\* reserved row under the slot's own label.
C18_SingleSlotNotMerged ==
    \A p \in Reqs :
        SingleSlotReserved(p)
        => /\ req[p].resp.success
           /\ req[p].resp.meetings_count = 1
           /\ ~req[p].resp.meetings[1].merged
           /\ Len(ledger) = 1
           /\ ledger[1].status \in ReservedValues
           /\ ledger[1].scheduled_label = req[p].sub.field_1[1].scheduled_label

\* the slots are two or more, all of one room, and each ends exactly when
\* the next one starts
IsChain(slots) ==
    /\ Len(slots) >= 2
    /\ \A i \in 1..Len(slots) : slots[i].item_name = slots[1].item_name
    /\ \A i \in 1..(Len(slots) - 1) : slots[i].end_time = slots[i + 1].start_time

\* the first request of a client is answered: a reservation of a chain
\* of slots that got its meeting
ChainReserved(p) ==
    /\ req[p].pc = "done" /\ req[p].mode = "handler" /\ req[p].served = 0
    /\ req[p].sub.status \in ReservedValues
    /\ IsChain(SortByStart(req[p].time_slots))
    /\ req[p].resp.status = 200
    /\ \E k \in 1..Len(req[p].resp.meetings) :
          req[p].resp.meetings[k].meeting_id # NoId

\* C19: contiguous slots of one room become one meeting.  One
\* CreateMeeting is issued (none in simulation mode), from the first
\* slot's start to the last slot's end; the one outcome is merged and
\* lists every slot's label; the one ledger row is reserved and its label
\* is the date, the first slot's start fragment and the last slot's end
\* fragment.
C19_ChainBecomesOneMeeting ==
    \A p \in Reqs :
        ChainReserved(p)
        => LET sorted == SortByStart(req[p].time_slots)
               first == sorted[1]
               last == sorted[Len(sorted)]
               creates == {j \in 1..Len(req[p].calls) :
                              req[p].calls[j].op = "CreateMeeting"}
               outcome == req[p].resp.meetings[1]
           IN  /\ Cardinality(creates) = IF config.skip_meeting_creation THEN 0 ELSE 1
               /\ \A j \in creates :
                     /\ req[p].calls[j].start_time = first.start_time
                     /\ req[p].calls[j].end_time = last.end_time
               /\ req[p].resp.meetings_count = 1
               /\ outcome.merged
               /\ Len(outcome.time_slots) = Len(req[p].sub.field_1)
               /\ \A i \in 1..Len(req[p].sub.field_1) :
                     \E k \in 1..Len(outcome.time_slots) :
                         outcome.time_slots[k] = req[p].sub.field_1[i].scheduled_label
               /\ Len(ledger) = 1
               /\ ledger[1].status \in ReservedValues
               /\ ledger[1].meeting_id = outcome.meeting_id
               /\ ledger[1].scheduled_label =
                     [date |-> first.scheduled_label.date,
                      from |-> first.scheduled_label.from,
                      to |-> last.scheduled_label.to]

\* C19 witness: 09:00-10:00 followed by 10:00-11:00 in one room was
\* created upstream as one meeting and stored under 09:00-11:00
C19_Witness ==
    \E p \in Reqs :
        /\ ChainReserved(p) /\ ~config.skip_meeting_creation
        /\ req[p].sub.field_1 = <<A0910, A1011>>
        /\ Len(ledger) = 1
        /\ ledger[1].scheduled_label = Label(540, 660)
        /\ ledger[1].meeting_id = UpstreamId(p, 1)

\* C20: webhook authentication.  A request whose auth parameter is absent
\* or differs from the configured token is answered 401 and has issued no
\* upstream call.
C20_WebhookAuth ==
    \A p \in Reqs :
        (/\ req[p].pc = "done" /\ req[p].mode = "handler"
         /\ req[p].sub.auth # webhook_auth_token)
        => /\ req[p].resp.status = 401
           /\ req[p].calls = <<>>

\* C21: status vocabulary.  Every ledger row's status is a reserved or a
\* cancelled value, whatever status strings the submissions carried.
C21_StatusVocabulary ==
    \A i \in 1..Len(ledger) :
        ledger[i].status \in ReservedValues \cup CancelledValues

\* C22: find_active returns none after cancel.  In the ledger a
\* cancel(token) call leaves behind when it returns, find_active(token)
\* finds no row.
C22_FindNoneAfterCancel ==
    [][\A p \in Reqs :
          (req[p].pc = "cancel_body" /\ req'[p].pc # "cancel_body")
          => find_meeting_by_token(ledger', req[p].sub.token) = <<>>]_vars

\* a cancel_meeting call of task p returns in this step
CancelActs(p) ==
    req[p].pc = "cancel_body" /\ req'[p].pc # "cancel_body"

OneRunReserved(p) ==
    /\ req[p].pc = "done" /\ req[p].mode = "handler"
    /\ req[p].sub.status \in ReservedValues
    /\ Len(req[p].groups) = 1

\* C24: no orphaned upstream meeting.  With ledger writes succeeding,
\* whenever a reservation is answered, the same one sent again included,
\* every meeting_id a CreateMeeting of it returned is the meeting_id of
\* some ledger row.  (Stated for reservations of one run.)
C24_NoOrphanMeeting ==
    \A p \in Reqs :
        OneRunReserved(p)
        => \A j \in 1..Len(req[p].calls) :
              (/\ req[p].calls[j].op = "CreateMeeting"
               /\ req[p].calls[j].result = "ok"
               /\ req[p].calls[j].meeting_id # NoId)
              => \E i \in 1..Len(ledger) :
                    ledger[i].meeting_id = req[p].calls[j].meeting_id

\* C25: a cancelled row means the upstream was cancelled.  When a
\* cancellation is answered, every row it turned to cancelled whose
\* meeting_id is not a simulated one has had a ReleaseRooms and a
\* CancelMeeting that succeeded.
C25_CancelledMeansReleased ==
    \A p \in Reqs :
        (req[p].pc = "done" /\ req[p].mode = "handler" /\ IsCancellation(req[p]))
        => \A k \in 1..Len(req[p].cancelled) :
              LET meeting_id == req[p].cancelled[k][1]
              IN  ~HasSimulationPrefix(meeting_id)
                  => /\ \E i \in 1..Len(ledger) :
                           /\ ledger[i].meeting_id = meeting_id
                           /\ ledger[i].status \in CancelledValues
                     /\ \A op \in {"ReleaseRooms", "CancelMeeting"} :
                           \E j \in 1..Len(req[p].calls) :
                               /\ req[p].calls[j].op = op
                               /\ req[p].calls[j].meeting_id = meeting_id
                               /\ req[p].calls[j].result = "ok"

\* C26: a cancelled status never reserves.  A submission whose status is
\* a cancelled value, "Cancelled" as well as the form's cancelled word,
\* takes the cancellation path: it issues no CreateMeeting and no row
\* carrying its status is appended.
C26_CancelledNeverReserves ==
    \A p \in Reqs :
        (req[p].mode = "handler" /\ req[p].sub.status \in CancelledValues)
        => /\ \A j \in 1..Len(req[p].calls) : req[p].calls[j].op # "CreateMeeting"
           /\ req[p].store = NoCall
           /\ \A i \in 1..Len(ledger) :
                 ~(ledger[i].status = "Cancelled" /\ ledger[i].cancelled_at = NoStamp)

\* a call of the planner on its own has returned
Planned(p) == req[p].mode = "slots" /\ req[p].pc = "planned"

\* how often slot x occurs in a list, and in the runs of a plan
InList(slots, x) == Cardinality({i \in 1..Len(slots) : slots[i] = x})
InRuns(groups, x) ==
    Cardinality({gi \in (1..Len(groups)) \X (1..MaxSlots + 1) :
                    gi[2] <= Len(groups[gi[1]]) /\ groups[gi[1]][gi[2]] = x})

C28_RunsMaximal ==
    \A p \in Reqs :
        Planned(p)
        => \A g, h \in 1..Len(req[p].groups) :
              LET one == req[p].groups[g]
                  other == req[p].groups[h]
              IN  (g # h /\ one[1].item_name = other[1].item_name)
                  => one[Len(one)].end_time # other[1].start_time

\* a call of the parser on its own returns in this step
ParseReturns(p) ==
    req[p].mode = "slots" /\ req[p].pc = "parse" /\ req'[p].pc = "parsed"

\* C29: the past-time rule.  For an item whose scheduled_at parses, with
\* the end candidate being the start candidate plus the label's duration:
\* if both candidates are before now the parse fails; else if the start
\* candidate is before now the slot starts at now + 2 minutes and ends at
\* the end candidate; else the slot has both candidates unchanged.
C29_PastTimeRule ==
    [][\A p \in Reqs :
          (ParseReturns(p) /\ req[p].sub.field_1[1].scheduled_at # BadTime)
          => LET reservation == req[p].sub.field_1[1]
                 start_candidate == reservation.scheduled_at
                 end_candidate ==
                     start_candidate + duration_mins(reservation.scheduled_label)
             IN  IF start_candidate < now /\ end_candidate < now
                 THEN req'[p].ret = "Err" /\ req'[p].time_slots = <<>>
                 ELSE /\ req'[p].ret = "Ok"
                      /\ Len(req'[p].time_slots) = 1
                      /\ req'[p].time_slots[1].end_time = end_candidate
                      /\ req'[p].time_slots[1].start_time =
                            IF start_candidate < now
                            THEN now + PastAdjustMins ELSE start_candidate]_vars

\* C29 witness: an item that had started and ends later was parsed; its
\* slot starts after scheduled_at and ends where the label puts the end
C29_Witness ==
    \E p \in Reqs :
        /\ req[p].mode = "slots" /\ req[p].pc = "parsed" /\ req[p].ret = "Ok"
        /\ LET reservation == req[p].sub.field_1[1]
               slot == req[p].time_slots[1]
           IN  /\ slot.start_time > reservation.scheduled_at
               /\ slot.end_time =
                     reservation.scheduled_at
                     + duration_mins(reservation.scheduled_label)
               /\ slot.end_time > slot.start_time

\* C30: a slot ends after it starts.  Every TimeSlot the parser returns
\* has end_time > start_time, whatever the label and wherever now lies.
C30_EndAfterStart ==
    \A p \in Reqs :
        (req[p].mode = "slots" /\ req[p].pc = "parsed" /\ req[p].ret = "Ok")
        => req[p].time_slots[1].end_time > req[p].time_slots[1].start_time

\* the last call of the log that has returned: 0 when there is none
LastReturned(calls) ==
    LET returned == {j \in 1..Len(calls) : calls[j].result # "pending"}
    IN  IF returned = {} THEN 0
        ELSE CHOOSE j \in returned : \A k \in returned : k <= j

\* C31: HTTP-status errors are surfaced.  When the upstream answered a
\* task's last returned call with a status that is not 2xx, the client
\* returned an error for it; and when that call was ReleaseRooms, no
\* CancelMeeting follows it.
C31_StatusErrorsSurface ==
    \A p \in Reqs :
        (/\ req[p].mode = "handler"
         /\ req[p].answer.kind = "http"
         /\ ~is_success(req[p].answer.status))
        => LET j == LastReturned(req[p].calls)
           IN  /\ j > 0
               /\ req[p].calls[j].result = "err"
               /\ (req[p].calls[j].op = "ReleaseRooms"
                   => ~(/\ j < Len(req[p].calls)
                        /\ req[p].calls[j + 1].op = "CancelMeeting"))

\* a CreateMeeting of task p returns an empty meeting list in this step
CreateReturnsEmpty(p) ==
    /\ req[p].mode = "handler" /\ req[p].pc = "create_wait"
    /\ req'[p].answer = HttpResponse(200, "empty_list")
    /\ req'[p].calls # req[p].calls

\* C32: an empty create body.  When CreateMeeting returns Ok with an empty
\* meeting list, the run's outcome is appended with success=true and no
\* meeting_id, all_successful is kept, no BookRooms call is issued, the
\* ledger is left as it is and no store call is started: the task goes on
\* to the CreateMeeting of the next run or answers.
C32_EmptyCreateBody ==
    [][\A p \in Reqs :
          CreateReturnsEmpty(p)
          => LET n == Len(req[p].results)
                 c == Len(req[p].calls)
             IN  /\ Len(req'[p].results) = n + 1
                 /\ req'[p].results[n + 1].success
                 /\ req'[p].results[n + 1].meeting_id = NoId
                 /\ req'[p].all_successful = req[p].all_successful
                 /\ req'[p].calls[c].result = "ok"
                 /\ \A j \in (c + 1)..Len(req'[p].calls) :
                       req'[p].calls[j].op = "CreateMeeting"
                 /\ ledger' = ledger
                 /\ req'[p].store = req[p].store
                 /\ req'[p].pc \in {"create_wait", "done"}]_vars

\* C32 witness: with room booking on, a reservation was answered whose
\* only CreateMeeting returned an empty list: one outcome without
\* meeting_id, no BookRooms, no row
C32_Witness ==
    \E p \in Reqs :
        /\ req[p].pc = "done" /\ req[p].mode = "handler"
        /\ ~config.skip_room_booking
        /\ req[p].answer = HttpResponse(200, "empty_list")
        /\ Len(req[p].calls) = 1 /\ req[p].calls[1].op = "CreateMeeting"
        /\ req[p].resp.meetings_count = 1
        /\ req[p].resp.meetings[1].success
        /\ req[p].resp.meetings[1].meeting_id = NoId
        /\ ledger = <<>>

(***************************************************************************)
(* C33: the operator of a room booking                                     *)
(***************************************************************************)

\* the operator the form of task p names, as the registry resolves it
FormOperator(p) == get_operator_info(req[p].sub).operator_id

\* C33: every BookRooms call carries the operator id resolved from the
\* form's operator-name field, the one that run's CreateMeeting carried as
\* userid, also when the form names an operator other than the default
C33_BookRoomsOperator ==
    \A p \in Reqs : \A j \in 1..Len(req[p].calls) :
        req[p].calls[j].op = "BookRooms" =>
            /\ j > 1
            /\ req[p].calls[j - 1].op = "CreateMeeting"
            /\ req[p].calls[j].operator_id = req[p].calls[j - 1].operator_id
            /\ req[p].calls[j].operator_id = FormOperator(p)

(***************************************************************************)
(* C34: no retries and no skipped runs                                     *)
(***************************************************************************)

\* the runs the planner handed to the orchestrator: one on the
\* single-meeting path, one per group in the loop
PlannedRuns(r) == IF r.full THEN 1 ELSE Len(r.groups)

\* the positions of the calls of operation op in a call log
IssuedCalls(calls, op) == {j \in 1..Len(calls) : calls[j].op = op}

\* task p serves a reservation whose slots all parsed, simulation off
Reserving(p) ==
    /\ req[p].pc # "idle"
    /\ ~is_cancellation_request(req[p].sub.status)
    /\ req[p].groups # <<>>
    /\ ~config.skip_meeting_creation

\* task p serves a cancellation
Cancelling(p) ==
    /\ req[p].pc # "idle"
    /\ is_cancellation_request(req[p].sub.status)

\* C34: with simulation off, a reservation whose slots all parse issues
\* CreateMeeting exactly once per planned run (one call per run begun, and
\* every run begun by the time the response is built); BookRooms is issued
\* at most once per run, only right after that run's CreateMeeting returned
\* a meeting_id, never with room booking disabled; a cancellation issues
\* ReleaseRooms and CancelMeeting at most once per meeting the ledger
\* returned
C34_NoRetriesNoSkippedRuns ==
    \A p \in Reqs :
        LET r == req[p]
        IN  /\ Reserving(p) =>
                 /\ Cardinality(IssuedCalls(r.calls, "CreateMeeting")) = r.gi
                 /\ r.gi <= PlannedRuns(r)
                 /\ r.pc = "done" /\ r.resp.status = 200 => r.gi = PlannedRuns(r)
                 /\ r.pc = "done" /\ r.resp.status # 200 => PlannedRuns(r) = 1
                 /\ \A j \in IssuedCalls(r.calls, "BookRooms") :
                       /\ ~config.skip_room_booking
                       /\ j > 1
                       /\ r.calls[j - 1].op = "CreateMeeting"
                       /\ r.calls[j - 1].result = "ok"
                       /\ r.calls[j - 1].meeting_id # NoId
                       /\ r.calls[j].meeting_id = r.calls[j - 1].meeting_id
                 /\ \A j, k \in IssuedCalls(r.calls, "CreateMeeting") :
                       /\ r.calls[j].meeting_id # NoId
                       /\ r.calls[j].meeting_id = r.calls[k].meeting_id
                       => j = k
            /\ Cancelling(p) =>
                 \A op \in {"ReleaseRooms", "CancelMeeting"} :
                    /\ \A j \in IssuedCalls(r.calls, op) :
                          \E i \in 1..Len(r.cancelled) :
                              r.cancelled[i][1] = r.calls[j].meeting_id
                    /\ \A j, k \in IssuedCalls(r.calls, op) :
                          r.calls[j].meeting_id = r.calls[k].meeting_id => j = k

\* one task has served a reservation of two runs, each created and booked
\* once, and another a cancellation that released and cancelled two meetings
C34_Witness ==
    \E p, q \in Reqs :
        /\ Reserving(p) /\ req[p].pc = "done"
        /\ PlannedRuns(req[p]) = 2
        /\ Cardinality(IssuedCalls(req[p].calls, "BookRooms")) = 2
        /\ Cancelling(q) /\ req[q].pc = "done"
        /\ Cardinality(IssuedCalls(req[q].calls, "ReleaseRooms")) = 2
        /\ Cardinality(IssuedCalls(req[q].calls, "CancelMeeting")) = 2

(***************************************************************************)
(* C35: concurrent cancellations of one token                              *)
(***************************************************************************)

\* the tasks whose cancel_meeting call got the pair of meeting meeting_id
CallersGiven(meeting_id) ==
    {p \in Reqs : \E i \in 1..Len(req[p].cancelled) :
                      req[p].cancelled[i][1] = meeting_id}

\* the calls of operation op issued for meeting meeting_id, by any task
IssuedFor(op, meeting_id) ==
    UNION { { <<p, j>> : j \in {k \in 1..Len(req[p].calls) :
                                    /\ req[p].calls[k].op = op
                                    /\ req[p].calls[k].meeting_id = meeting_id} }
            : p \in Reqs }

\* C35: under concurrent cancel(token) calls the pair of a row is returned
\* to no caller while the row is reserved and to exactly one caller once
\* it is cancelled, so ReleaseRooms and CancelMeeting are each issued at
\* most once per meeting across the concurrent cancellation submissions
C35_OneCallerPerRow ==
    \A i \in 1..Len(ledger) :
        LET row == ledger[i]
        IN  /\ Cardinality(CallersGiven(row.meeting_id))
                  = (IF row.status \in CancelledValues THEN 1 ELSE 0)
            /\ \A p \in CallersGiven(row.meeting_id) :
                  Cardinality({k \in 1..Len(req[p].cancelled) :
                                  req[p].cancelled[k][1] = row.meeting_id}) = 1
            /\ Cardinality(IssuedFor("ReleaseRooms", row.meeting_id)) <= 1
            /\ Cardinality(IssuedFor("CancelMeeting", row.meeting_id)) <= 1

\* two cancellations of the same token were in flight together: one got
\* both rows and has released the first, the other got nothing
C35_Witness ==
    \E p, q \in Reqs :
        /\ p # q
        /\ req[p].sub.token = req[q].sub.token
        /\ req[p].pc = "release_wait" /\ Len(req[p].cancelled) = 2
        /\ req[q].pc = "done" /\ req[q].cancelled = <<>>
        /\ is_cancellation_request(req[q].sub.status)

(***************************************************************************)
(* C36: ledger calls return                                                *)
(***************************************************************************)

\* C36: the lock is held exactly by a task inside the body of
\* find_all_meetings_by_token, write_record or cancel_meeting, so its holder
\* never waits for the lock again and never waits for an upstream answer;
\* and under a fair scheduler every find call returns (to the duplicate
\* exit or to write_record), every store call returns (the run's result is
\* appended to the results), and every cancel call returns
C36_LedgerCallsReturn ==
    LET InStore(p) ==
            req[p].pc \in {"find_lock", "find_body", "write_lock", "write_body"}
        InCancel(p) == req[p].pc \in {"cancel_lock", "cancel_body"}
        HoldsLock(p) == req[p].pc \in {"find_body", "write_body", "cancel_body"}
    IN  /\ [](\A p \in Reqs : (file_mutex = p) <=> HoldsLock(p))
        /\ \A p \in Reqs :
              /\ \A n \in 0..MaxSlots :
                    /\ (req[p].pc = "find_lock" /\ Len(req[p].results) = n)
                          ~> (req[p].pc = "write_lock" \/ Len(req[p].results) > n)
                    /\ (InStore(p) /\ Len(req[p].results) = n)
                          ~> (Len(req[p].results) > n)
              /\ InCancel(p) ~> ~InCancel(p)

\* a store call waits for the lock while a cancel call of the other task
\* holds it
C36_Witness ==
    \E p, q \in Reqs :
        /\ req[p].pc = "write_lock"
        /\ req[q].pc = "cancel_body"
        /\ file_mutex = q

(***************************************************************************)
(* C37: a reservation made again after its cancellation                    *)
(***************************************************************************)

\* C37: a store call whose token and scheduled_label are those of a
\* cancelled row, and of no row of its own status, is not taken for a
\* duplicate: it goes on to write_record, which appends a reserved row and
\* leaves every earlier row as it was; and the pairs a cancel call returns
\* are those of the rows that were reserved, never that of a cancelled row
C37_ReserveAgainAfterCancel ==
    [][\A p \in Reqs :
          LET call == req[p].store
              CancelledBefore ==
                  \E i \in 1..Len(ledger) :
                      /\ ledger[i].entry_token = call.entry_token
                      /\ ledger[i].scheduled_label = call.scheduled_label
                      /\ ledger[i].status \in CancelledValues
              ReservedBefore ==
                  \E i \in 1..Len(ledger) :
                      /\ ledger[i].entry_token = call.entry_token
                      /\ ledger[i].scheduled_label = call.scheduled_label
                      /\ ledger[i].status = call.status
              Active == {i \in 1..Len(ledger) :
                            /\ ledger[i].entry_token = req[p].sub.token
                            /\ ledger[i].status \in ReservedValues}
          IN  /\ req[p].pc = "find_body" /\ req'[p].pc # "find_body"
                 /\ CancelledBefore /\ ~ReservedBefore
                 => req'[p].pc = "write_lock" /\ ledger' = ledger
              /\ req[p].pc = "write_body" /\ req'[p].pc # "write_body"
                 /\ CancelledBefore /\ ~ReservedBefore
                 => /\ Len(ledger') = Len(ledger) + 1
                    /\ SubSeq(ledger', 1, Len(ledger)) = ledger
                    /\ ledger'[Len(ledger')].entry_token = call.entry_token
                    /\ ledger'[Len(ledger')].scheduled_label = call.scheduled_label
                    /\ ledger'[Len(ledger')].status = call.status
                    /\ ledger'[Len(ledger')].meeting_id = call.meeting_id
              /\ req[p].pc = "cancel_body" /\ req'[p].pc # "cancel_body"
                 => /\ Len(req'[p].cancelled) = Cardinality(Active)
                    /\ \A k \in 1..Len(req'[p].cancelled) :
                          \E i \in Active :
                              req'[p].cancelled[k]
                                  = <<ledger[i].meeting_id, ledger[i].room_id>>
      ]_vars

\* store, cancel, store again with another meeting, cancel again: the file
\* holds two cancelled rows of one token and label, and the last cancel
\* call returned the pair of the second row alone
C37_Witness ==
    \E p \in Reqs :
        /\ req[p].mode = "driver" /\ req[p].pc = "idle" /\ req[p].ret = "Ok"
        /\ Len(ledger) = 2
        /\ ledger[1].entry_token = ledger[2].entry_token
        /\ ledger[1].scheduled_label = ledger[2].scheduled_label
        /\ ledger[1].status \in CancelledValues
        /\ ledger[2].status \in CancelledValues
        /\ ledger[1].meeting_id # ledger[2].meeting_id
        /\ ledger[1].cancelled_at # ledger[2].cancelled_at
        /\ req[p].cancelled = << <<ledger[2].meeting_id, ledger[2].room_id>> >>

(***************************************************************************)
(* C38: the duration a label stands for                                    *)
(***************************************************************************)

\* C38: for a label with a time range s-e the slot the parser returns ends
\* at its start candidate plus e - s minutes when e >= s, plus
\* 1440 + e - s minutes when e < s: 30 minutes for 14:00-14:30, 120 for
\* 23:00-01:00
C38_DurationFromLabel ==
    [][\A p \in Reqs :
          LET reservation == req[p].sub.field_1[1]
              s == reservation.scheduled_label.from
              e == reservation.scheduled_label.to
              start_candidate == reservation.scheduled_at
          IN  (ParseReturns(p) /\ s # NoRange /\ req'[p].ret = "Ok")
              => LET end_candidate == req'[p].time_slots[1].end_time
                 IN  /\ e >= s => end_candidate = start_candidate + (e - s)
                     /\ e < s => end_candidate = start_candidate + 1440 + e - s
                     /\ s = 840 /\ e = 870 => end_candidate - start_candidate = 30
                     /\ s = 1380 /\ e = 60 => end_candidate - start_candidate = 120
      ]_vars

\* the parser has returned a slot of two hours for 23:00-01:00
C38_Witness ==
    \E p \in Reqs :
        /\ req[p].mode = "slots" /\ req[p].pc = "parsed" /\ req[p].ret = "Ok"
        /\ req[p].sub.field_1[1].scheduled_label = Label(1380, 60)
        /\ req[p].time_slots[1].end_time
              = req[p].sub.field_1[1].scheduled_at + 120

(***************************************************************************)
(* C39: the range of the nonce                                             *)
(***************************************************************************)

\* C39: a nonce is a text of 8 decimal digits that does not start with 0,
\* that is a number from 10000000 to 99999999; and generate_nonce can
\* return every such number, 99999999 included
C39_NonceRange ==
    /\ \A p \in Reqs :
          req[p].pc = "signed"
          => /\ Len(req[p].signed.nonce) = 8
             /\ req[p].signed.nonce[1] \in 49..57
             /\ \A i \in 2..8 : req[p].signed.nonce[i] \in 48..57
    /\ (\E p \in Reqs : req[p].pc = "signed")
          => \A n \in {10000000, 10000001, 54999999, 99999998, 99999999} :
                to_string(n) \in generate_nonce

(***************************************************************************)
(* C40: the encoding of the signature                                      *)
(***************************************************************************)

\* C40: the signature of a signed request is base64 text whose decoding is
\* the 64 lowercase hexadecimal digits of the MAC of method LF header
\* string LF uri LF body under the secret key, and is not the base64 text
\* of the 32 MAC bytes; two requests signed with equal inputs carry equal
\* signatures
C40_SignatureEncoding ==
    LET value(c) == IF c \in 65..90 THEN c - 65
                    ELSE IF c \in 97..122 THEN c - 71
                    ELSE IF c \in 48..57 THEN c + 4
                    ELSE IF c = 43 THEN 62
                    ELSE IF c = 47 THEN 63 ELSE 0
        pads(text) == Cardinality({i \in 1..Len(text) : text[i] = 61})
        decode(text) ==
            [j \in 1..(3 * (Len(text) \div 4) - pads(text)) |->
                LET g == (j - 1) \div 3
                    k == (j - 1) % 3
                    v == value(text[4 * g + 1]) * 262144 + value(text[4 * g + 2]) * 4096
                         + value(text[4 * g + 3]) * 64 + value(text[4 * g + 4])
                IN  (v \div 256^(2 - k)) % 256]
        mac(s) == HmacSha256("test_secret_key",
                      <<s.method, "\n",
                        <<"X-TC-Key=", "test_secret_id", "&X-TC-Nonce=", s.nonce,
                          "&X-TC-Timestamp=", s.timestamp>>,
                        "\n", s.uri, "\n", s.body>>)
        inputs(s) == <<s.method, s.uri, s.body, s.timestamp, s.nonce>>
    IN  \A p \in Reqs :
            req[p].pc = "signed"
            => LET s == req[p].signed
                   decoded == decode(s.signature)
               IN  /\ Len(s.signature) % 4 = 0
                   /\ Len(decoded) = 64
                   /\ \A i \in 1..Len(decoded) :
                         decoded[i] \in (48..57) \cup (97..102)
                   /\ \A i \in 1..32 :
                         LET digit(c) == IF c <= 57 THEN c - 48 ELSE c - 87
                         IN  16 * digit(decoded[2 * i - 1]) + digit(decoded[2 * i])
                                = mac(s)[i]
                   /\ decoded # mac(s)
                   /\ \A q \in Reqs :
                         req[q].pc = "signed" /\ inputs(req[q].signed) = inputs(s)
                         => req[q].signed.signature = s.signature

\* two requests were signed with the same method, uri, body, timestamp and
\* nonce
C40_Witness ==
    \E p, q \in Reqs :
        /\ p # q
        /\ req[p].pc = "signed" /\ req[q].pc = "signed"
        /\ req[p].signed.method = "POST" /\ req[p].signed.body # ""
        /\ req[p].signed.method = req[q].signed.method
        /\ req[p].signed.uri = req[q].signed.uri
        /\ req[p].signed.body = req[q].signed.body
        /\ req[p].signed.timestamp = req[q].signed.timestamp
        /\ req[p].signed.nonce = req[q].signed.nonce
        /\ Len(req[p].signed.signature) = 88

====
